---- MODULE Spec2Model ----
(***************************************************************************)
(* A model of src/server.js (Tripster, a LINE travel-assistant webhook).   *)
(*                                                                         *)
(* Texts are abstracted to sequences of word tokens.  Each token stands    *)
(* for one of the literal Thai strings the dispatcher tests for:           *)
(*   "recPlace"   one of the three recommend-places prefixes (line 696)    *)
(*   "info"       the word of the info prefix, which needs a following     *)
(*                space and so a following word (line 755)                 *)
(*   "recHotel"   the recommend-hotels prefix (line 797)                   *)
(*   "lodging"    the need-lodging substring (line 797)                    *)
(*   "weather"    the weather word, a prefix only when a space and hence   *)
(*                another word follows (line 843)                          *)
(*   "weatherNow" the current-weather prefix (line 843)                    *)
(*   "map"        the map prefix (line 866)                                *)
(*   "contact"    the contact-authorities sentence (line 896)              *)
(*   "province"   one of the nine northern province names (line 698)       *)
(*   "north"      the region name (line 699)                               *)
(*   "chat"       any other word                                           *)
(* Remote collaborators (LINE, Firestore, Vertex AI, Translate, Places,    *)
(* Custom Search) are nondeterministic: every call may fail or answer with *)
(* any value of a small set.                                               *)
(***************************************************************************)
EXTENDS Integers, Sequences, FiniteSets, TLC

\* store: the chatHistory collection, one document per user
\* proc:  the locals of each running handler
\* asked: the prompts handed to getAIResponse by a direct caller so far
VARIABLES store, proc, asked

vars == <<store, proc, asked>>

\* ------------------------------------------------------------------ bounds

\* longest inbound text, in words
MaxMsgLen == 2
\* longest history already stored when the server starts, in exchanges
MaxInitExchanges == 6
\* completions asked for in one behaviour of the history specification
MaxAsks == 2
\* most entries in a result set of the text search or the nearby search
MaxResults == 4
\* most messages in a batch handed to a send function on its own
MaxBatch == 2
\* most events in one webhook delivery
MaxEvents == 2
\* most lines of a completion handed to the extraction on its own
MaxLines == 3
\* most candidate names handed to the place carousel on its own
MaxNames == 4

\* ------------------------------------------------------------------ data

Users == {"u1", "u2"}
Procs == {1, 2}
Langs == {"th", "en", "ja"}

Tokens ==
  {"recPlace", "info", "recHotel", "lodging", "weather", "weatherNow", "map",
   "contact", "province", "north", "chat"}

Texts == UNION {[1..n -> Tokens] : n \in 1..MaxMsgLen}

\* the store holds no document for the user
NoDoc == <<[role |-> "none", text |-> <<>>]>>

\* ---------------------------------------------------------- string helpers

\* String.prototype.includes on word level
Includes(s, w) == \E i \in 1..Len(s) : s[i] = w

\* String.prototype.startsWith for a keyword that carries no trailing space
StartsWith(s, w) == Len(s) >= 1 /\ s[1] = w

\* startsWith for a keyword followed by a space: another word must follow
StartsWithSp(s, w) == Len(s) >= 2 /\ s[1] = w

\* String.prototype.replace(pattern, ""): removes the leftmost match only
RemoveFirst(s, ws) ==
  IF \E i \in 1..Len(s) : s[i] \in ws
  THEN LET k == CHOOSE i \in 1..Len(s) :
                  s[i] \in ws /\ \A j \in 1..(i - 1) : s[j] \notin ws
       IN SubSeq(s, 1, k - 1) \o SubSeq(s, k + 1, Len(s))
  ELSE s

\* Array.prototype.slice(-n)
LastN(s, n) == IF Len(s) > n THEN SubSeq(s, Len(s) - n + 1, Len(s)) ELSE s

\* Array.prototype.slice(0, n)
FirstN(s, n) == IF Len(s) > n THEN SubSeq(s, 1, n) ELSE s

Range(s) == {s[i] : i \in 1..Len(s)}

\* ------------------------------------------------------------ chat history

\* only the last 10 stored turns are read back (lines 101-102)
HistoryWindow == 10

\* the persona preamble and the prompt form the text of the new user turn (line 115)
UserTurn(prompt) == [role |-> "user", text |-> <<"tone">> \o prompt]

\* the model turn written back (line 127)
ModelTurn(reply) == [role |-> "model", text |-> reply]

Exists(docu) == docu # NoDoc

\* userDoc.data().messages || []
Stored(docu) == IF Exists(docu) THEN docu ELSE <<>>

\* a reader that lacks the slice of line 102
ReadWholeHistory(docu, previousMessages) ==
  IF Exists(docu) THEN docu ELSE previousMessages

\* lines 97-104: the turns the completion builds upon
ReadHistory(docu, previousMessages) ==
  IF Exists(docu) THEN LastN(docu, HistoryWindow) ELSE previousMessages

\* lines 113-116
RequestContents(chatHistory, prompt) == chatHistory \o <<UserTurn(prompt)>>

\* Firestore arrayUnion: each element, in order, is appended unless a value
\* equal to it is already in the array
RECURSIVE ArrayUnion(_, _)
ArrayUnion(arr, elems) ==
  IF elems = <<>> THEN arr
  ELSE ArrayUnion(IF Head(elems) \in Range(arr) THEN arr ELSE Append(arr, Head(elems)),
                  Tail(elems))

\* a write that puts the request and the model turn in place of the stored array
WriteOver(docu, messages, aiResponse) ==
  messages \o <<ModelTurn(aiResponse)>>

\* lines 126-129: setDoc(..., {messages: arrayUnion(...messages, modelTurn)}, {merge: true})
WriteHistory(docu, messages, aiResponse) ==
  ArrayUnion(Stored(docu), messages \o <<ModelTurn(aiResponse)>>)

\* line 124: text of the first candidate, or the fixed sentence
CandidateText(candidate) == IF candidate = <<>> THEN <<"sorryNoInfo">> ELSE candidate

\* line 92 and line 134: the two fixed apology strings of getAIResponse
ApologyNoToken == <<"apologyNoToken">>
ApologyError == <<"apologyError">>

\* the history left by k successful completions of earlier runs of the server:
\* the i-th asked i words of small talk and was answered with i lines of prose
RECURSIVE Preload(_)
Preload(k) ==
  IF k = 0 THEN NoDoc
  ELSE LET before == Preload(k - 1)
           prompt == [i \in 1..k |-> "chat"]
       IN WriteHistory(before, RequestContents(ReadHistory(before, <<>>), prompt),
                       [i \in 1..k |-> "prose"])

\* --------------------------------------------------------------- translate

DetectOutcomes == Langs \cup {"err"}
TranslateOutcomes == {"ok", "err"}

Txt(id, lang) == [id |-> id, lang |-> lang]
NoTxt == Txt("", "")

Call(c, arg, res) == [c |-> c, arg |-> arg, res |-> res]

\* a translation that is tagged with the detected language
translateTaggedSource(text, targetLang, det, tr) ==
  IF det = "err" THEN [text |-> text, lang |-> "th"]
  ELSE IF targetLang = "" \/ targetLang = det THEN [text |-> text, lang |-> det]
  ELSE IF tr = "err" THEN [text |-> text, lang |-> "th"]
  ELSE [text |-> Txt(text.id, targetLang), lang |-> det]

\* lines 138-155 for a string input: detect answers det, translate answers tr;
\* targetLang "" is null
translateText(text, targetLang, det, tr) ==
  IF det = "err" THEN [text |-> text, lang |-> "th"]
  ELSE IF targetLang = "" \/ targetLang = det THEN [text |-> text, lang |-> det]
  ELSE IF tr = "err" THEN [text |-> text, lang |-> "th"]
  ELSE [text |-> Txt(text.id, targetLang), lang |-> targetLang]

\* line 141: the fixed sentence for a text that is no string
InvalidText == Txt("invalidText", "th")

\* a value that is no string, by what text?.toString() gives for it; "" stands
\* for undefined and for the empty string
Value(kind, str) == [kind |-> kind, str |-> str]

\* values that are no strings: null, undefined, numbers, booleans, an object,
\* an empty and a filled list
NonStrings ==
  {Value("null", ""), Value("undefined", ""), Value("number", "5"), Value("number", "0"),
   Value("boolean", "false"), Value("object", "[object Object]"),
   Value("array", ""), Value("array", "1,2")}

\* an answer to a non-string that is the fixed sentence whatever the value
translateNonStringFixed(value) == [text |-> InvalidText, lang |-> "th"]

\* lines 139-142: { text: text?.toString() || fixed sentence, lang: "th" }
translateNonString(value) ==
  [text |-> IF value.str = "" THEN InvalidText ELSE Txt(value.str, ""), lang |-> "th"]

\* lines 145-149: the calls one translateText makes to the translation service
TranslateLog(targetLang, det) ==
  IF det = "err" \/ targetLang = "" \/ targetLang = det THEN <<"detect">>
  ELSE <<"detect", "translate">>

\* one translateText call in the log of a handler: its detect call and, when the
\* text is to be translated, its translate call
TrCall == <<Call("translation", <<>>, "")>>

\* every answer one translateText call can give for a text
TranslationsOf(text, targetLang) ==
  {translateText(text, targetLang, det, tr) :
     det \in DetectOutcomes, tr \in TranslateOutcomes}

\* every answer one translateText call can give for a fixed Thai sentence
Translations(id, targetLang) == TranslationsOf(Txt(id, "th"), targetLang)

\* -------------------------------------------------------------- quick reply

\* a menu whose message actions send the text of their label
createQuickReplyByLabel(lang) ==
  << [type |-> "message",
      label |-> Txt("recommendPlaces", IF lang = "th" THEN "th" ELSE "en"),
      payload |-> IF lang = "th" THEN "recPlace" ELSE "Recommend Places"],
     [type |-> "message",
      label |-> Txt("recommendHotels", IF lang = "th" THEN "th" ELSE "en"),
      payload |-> IF lang = "th" THEN "recHotel" ELSE "Recommend Hotels"],
     [type |-> "uri",
      label |-> Txt("createTravelPlan", IF lang = "th" THEN "th" ELSE "en"),
      payload |-> "https://tripster-plans.netlify.app/"] >>

\* lines 633-662
createQuickReply(lang) ==
  << [type |-> "message",
      label |-> Txt("recommendPlaces", IF lang = "th" THEN "th" ELSE "en"),
      payload |-> "recPlace"],
     [type |-> "message",
      label |-> Txt("recommendHotels", IF lang = "th" THEN "th" ELSE "en"),
      payload |-> "recHotel"],
     [type |-> "uri",
      label |-> Txt("createTravelPlan", IF lang = "th" THEN "th" ELSE "en"),
      payload |-> "https://tripster-plans.netlify.app/"] >>

NoQuickReply == <<>>

\* a reply message: n counts the bubbles of a carousel or the links of a summary
Msg(type, text, n, qr) == [type |-> type, text |-> text, n |-> n, qr |-> qr]

TextMsg(text, qr) == Msg("text", text, 0, qr)

\* ------------------------------------------------------------ intent rules

\* line 678
MatchSticker(ev) == ev.type = "sticker"

\* line 696
MatchRecPlace(ev) == ev.type = "text" /\ StartsWith(ev.text, "recPlace")

\* line 755
MatchInfo(ev) == ev.type = "text" /\ StartsWithSp(ev.text, "info")

\* line 797
MatchRecHotel(ev) ==
  ev.type = "text" /\ (StartsWith(ev.text, "recHotel") \/ Includes(ev.text, "lodging"))

\* line 843
MatchWeather(ev) ==
  ev.type = "text" /\ (StartsWithSp(ev.text, "weather") \/ StartsWith(ev.text, "weatherNow"))

\* line 866
MatchMap(ev) == ev.type = "text" /\ StartsWith(ev.text, "map")

\* line 896
MatchContact(ev) == ev.type = "text" /\ ev.text = <<"contact">>

\* an if-chain that tests for hotels before it tests for the info prefix
ClassifyHotelFirst(ev) ==
  IF MatchSticker(ev) THEN "sticker"
  ELSE IF MatchRecPlace(ev) THEN "recPlace"
  ELSE IF MatchRecHotel(ev) THEN "recHotel"
  ELSE IF MatchInfo(ev) THEN "info"
  ELSE IF MatchWeather(ev) THEN "weather"
  ELSE IF MatchMap(ev) THEN "map"
  ELSE IF MatchContact(ev) THEN "contact"
  ELSE "fallback"

\* the if-chain of getAIResponseWithMedia: each test returns from the function
Classify(ev) ==
  IF MatchSticker(ev) THEN "sticker"
  ELSE IF MatchRecPlace(ev) THEN "recPlace"
  ELSE IF MatchInfo(ev) THEN "info"
  ELSE IF MatchRecHotel(ev) THEN "recHotel"
  ELSE IF MatchWeather(ev) THEN "weather"
  ELSE IF MatchMap(ev) THEN "map"
  ELSE IF MatchContact(ev) THEN "contact"
  ELSE "fallback"

\* a gate that lets every destination through
isAnywhere(destination) == Len(destination) >= 0

\* lines 699 and 800
isNorthern(destination) == Includes(destination, "province") \/ Includes(destination, "north")

\* line 697
RecPlaceDestination(text) ==
  LET d == RemoveFirst(text, {"recPlace"}) IN IF d = <<>> THEN <<"north">> ELSE d

\* line 798
HotelPlaceName(text) ==
  LET d == RemoveFirst(text, {"recHotel", "lodging"}) IN IF d = <<>> THEN <<"north">> ELSE d

\* line 756
InfoPlaceName(text) == RemoveFirst(text, {"info"})

\* line 844
WeatherPlaceName(text) ==
  LET d == RemoveFirst(text, {"weather", "weatherNow"}) IN IF d = <<>> THEN <<"bangkok">> ELSE d

\* line 867
MapPlaceName(text) == RemoveFirst(text, {"map"})

\* line 709: the 5-place prompt
RecPlacePrompt(destination) == <<"top5in">> \o destination

\* line 939: the prompt of the fallback branch
FallbackPrompt(ev) == IF ev.type = "text" THEN ev.text ELSE <<"userSentSticker">>

\* --------------------------------------------------------- completion text

\* the lines a completion is made of: a line that starts with a numeral and names
\* place A or B, a prose line with a numeral and a dot further in, plain prose,
\* and a line holding the show-image marker
Lines == {"numA", "numB", "inlA", "prose", "marker"}

\* /\d+\.\s*.+/ is not anchored: it matches a numeral and a dot anywhere in the line
HasDigitsDot(line) == line \in {"numA", "numB", "inlA"}

\* line 716 and line 944: strip a leading numeral, bold markup, the colon suffix
ExtractName(line) ==
  IF line = "numA" THEN <<"A">> ELSE IF line = "numB" THEN <<"B">> ELSE <<line>>

\* lines 714-716 and 942-944
ExtractPlaces(aiResponse) ==
  LET kept == SelectSeq(aiResponse, HasDigitsDot)
  IN [i \in 1..Len(kept) |-> ExtractName(kept[i])]

\* line 940
isPlaceList(aiResponse) == \E i \in 1..Len(aiResponse) : HasDigitsDot(aiResponse[i])

\* line 979
HasImageMarker(aiResponse) == Includes(aiResponse, "marker")

\* lines 940 and 979: what the fallback branch tests the completion for
Shape(aiResponse) ==
  [list |-> isPlaceList(aiResponse), marker |-> HasImageMarker(aiResponse)]

\* the first candidate's text as the completion service may answer it; <<>> is an
\* answer without candidate text
Completions ==
  {<<>>, <<"prose">>, <<"marker">>, <<"numA">>, <<"numA", "numB">>, <<"numA", "marker">>,
   <<"prose", "inlA">>, <<"numA", "numA">>}

\* the lines of a travel plan: a line that names place A or place B as a place
\* to visit, a line that names a hotel, and any other line
PlanLines == {"spotA", "spotB", "hotelLine", "prose"}

\* the completions of the plan prompt
PlanCompletions ==
  {<<>>, <<"prose">>, <<"spotA", "hotelLine">>,
   <<"spotB", "prose", "spotA", "spotB", "spotA">>}

\* what the completion service may answer in a branch
CompletionsOf(branch) == IF branch = "plan" THEN PlanCompletions ELSE Completions

\* lines 1037-1040: the lines with one of the two place keywords, each cut down
\* to the name
ExtractPlanPlaces(aiResponse) ==
  LET kept == SelectSeq(aiResponse, LAMBDA line : line \in {"spotA", "spotB"})
  IN [i \in 1..Len(kept) |-> IF kept[i] = "spotA" THEN <<"A">> ELSE <<"B">>]

\* ------------------------------------------------------------------ places

\* an entry of a result set; geo tells whether it has a geometry, which in the
\* answers of the Places API always holds a latitude and a longitude
Entry(name, geo, rating, count) ==
  [name |-> name, geo |-> geo, rating |-> rating, count |-> count]

Response(ok, results) == [ok |-> ok, results |-> results]

Failed == Response(FALSE, <<>>)

\* candidate.geometry
HasGeometry(e) == e.geo

\* the comparator of lines 180 and 313: a sorts before b; rating 0 is a missing rating
Before(a, b) == a.rating > b.rating \/ (a.rating = b.rating /\ a.count > b.count)

\* Array.prototype.sort is stable: x goes behind every element it does not beat
Insert(sorted, x) ==
  LET k == IF \E i \in 1..Len(sorted) : Before(x, sorted[i])
           THEN CHOOSE i \in 1..Len(sorted) :
                  Before(x, sorted[i]) /\ \A j \in 1..(i - 1) : ~Before(x, sorted[j])
           ELSE Len(sorted) + 1
  IN SubSeq(sorted, 1, k - 1) \o <<x>> \o SubSeq(sorted, k, Len(sorted))

RECURSIVE SortByRating(_)
SortByRating(s) ==
  IF s = <<>> THEN <<>>
  ELSE Insert(SortByRating(SubSeq(s, 1, Len(s) - 1)), s[Len(s)])

\* lines 186-195 and 315-323: the record made of an entry; latitude and longitude
\* tell whether the record holds that coordinate
Place(found, name, geo, rating, count) ==
  [found |-> found, name |-> name, latitude |-> geo, longitude |-> geo,
   rating |-> rating, count |-> count]

\* null
NoPlace == Place(FALSE, "", FALSE, 0, 0)

\* lines 157-161: the text-search query for a place name
PlaceQuery(placeName) ==
  IF Includes(placeName, "province") THEN placeName ELSE placeName \o <<"northThailand">>

\* a resolver that takes the first candidate with a geometry as it comes
FirstWithGeometry(resp) ==
  IF ~resp.ok THEN NoPlace
  ELSE LET filteredCandidates == SelectSeq(resp.results, HasGeometry)
       IN IF filteredCandidates = <<>> THEN NoPlace
          ELSE Place(TRUE, filteredCandidates[1].name, filteredCandidates[1].geo,
                     filteredCandidates[1].rating, filteredCandidates[1].count)

\* a resolver that sorts the candidates without looking at their geometry
BestOfAll(resp) ==
  IF ~resp.ok THEN NoPlace
  ELSE LET filteredCandidates == SortByRating(resp.results)
       IN IF filteredCandidates = <<>> THEN NoPlace
          ELSE Place(TRUE, filteredCandidates[1].name, filteredCandidates[1].geo,
                     filteredCandidates[1].rating, filteredCandidates[1].count)

\* lines 164-203: the record made of a text-search answer; a place's coordinates
\* are identified by its name
getLocationFromGooglePlaces(resp) ==
  IF ~resp.ok THEN NoPlace
  ELSE LET filteredCandidates == SortByRating(SelectSeq(resp.results, HasGeometry))
       IN IF filteredCandidates = <<>> THEN NoPlace
          ELSE Place(TRUE, filteredCandidates[1].name, filteredCandidates[1].geo,
                     filteredCandidates[1].rating, filteredCandidates[1].count)

\* a hotel finder that cuts the list before it sorts it
HotelsCutFirst(resp) ==
  IF ~resp.ok THEN <<>>
  ELSE LET top == SortByRating(FirstN(SelectSeq(resp.results, HasGeometry), 3))
       IN [i \in 1..Len(top) |->
             Place(TRUE, top[i].name, top[i].geo, top[i].rating, top[i].count)]

\* lines 311-323 and 326-329: the hotels made of a nearby-search answer
HotelsOf(resp) ==
  IF ~resp.ok THEN <<>>
  ELSE LET top == FirstN(SortByRating(SelectSeq(resp.results, HasGeometry)), 3)
       IN [i \in 1..Len(top) |->
             Place(TRUE, top[i].name, top[i].geo, top[i].rating, top[i].count)]

\* lines 294-298: the hard-coded coordinates
HardCoded == "18.7883,98.9857"

\* lines 286 and 289: the two default cities
CityA == <<"ChiangMaiThailand">>
CityB == <<"BangkokThailand">>

\* the answers of the text search: a failure, a result without geometry, and
\* place A rated above place B
PlaceResponses ==
  {Failed, Response(TRUE, <<Entry("A", FALSE, 2, 1)>>),
   Response(TRUE, <<Entry("B", TRUE, 1, 1), Entry("A", TRUE, 2, 0)>>)}

\* the answers of the nearby search: a failure, one hotel behind an entry
\* without geometry, and four hotels
NearbyResponses ==
  {Failed,
   Response(TRUE, <<Entry("H2", FALSE, 2, 1), Entry("H1", TRUE, 0, 0)>>),
   Response(TRUE, <<Entry("H1", TRUE, 1, 1), Entry("H2", TRUE, 2, 1),
                    Entry("H3", TRUE, 2, 2), Entry("H4", TRUE, 0, 0)>>)}

\* ------------------------------------------------------------- web search

\* a search item: whether title and snippet contain the place name, and the
\* hotel keyword
Item(id, hasName, hasHotel) == [id |-> id, hasName |-> hasName, hasHotel |-> hasHotel]

\* lines 259-278
searchPlaceWithCustomSearch(context, resp) ==
  IF ~resp.ok THEN <<>>
  ELSE LET Keep(item) == item.hasName /\ (context = "hotel" => item.hasHotel)
       IN SelectSeq(resp.results, Keep)

\* the answers of the web search: a failure, and three items of which two name
\* the place and one of these is about a hotel
SearchResponses ==
  {Failed,
   Response(TRUE, <<Item("i1", FALSE, TRUE), Item("i2", TRUE, TRUE), Item("i3", TRUE, FALSE)>>)}

RECURSIVE Flat(_)
\* Array.prototype.flat
Flat(ss) == IF ss = <<>> THEN <<>> ELSE Head(ss) \o Flat(Tail(ss))

\* lines 737, 767, 821 and 957: the links a summary lists
SearchLinks(flatResults) == Len(FirstN(flatResults, 3))

\* ------------------------------------------------------------------ events

Event(type, user, text) == [type |-> type, user |-> user, text |-> text]

NoEvent == Event("none", "", <<>>)

\* the message events one delivery can carry (line 1079)
Events ==
  {Event("text", u, t) : u \in Users, t \in Texts}
    \cup {Event("sticker", u, <<>>) : u \in Users}
    \cup {Event("image", u, <<>>) : u \in Users}

\* a sendToLine call of the webhook handler: what it was for, the size of the
\* batch, whether the welcome text was appended to it, whether the batch passed
\* validation and so reached the transport, and whether the transport took it
SendRec(what, n, welcome, valid, ok) ==
  [what |-> what, n |-> n, welcome |-> welcome, valid |-> valid, ok |-> ok]

\* the locals of one run of the webhook handler, between two events
Idle ==
  [pc |-> "idle", events |-> <<>>, ev |-> NoEvent, user |-> "", kind |-> "",
   isFirst |-> FALSE, branch |-> "", gate |-> "", lang |-> "th", dest |-> <<>>,
   prompt |-> <<>>, chatHistory |-> <<>>, request |-> <<>>, before |-> <<>>,
   wrote |-> FALSE, aiResponse |-> <<>>, validPlaces |-> <<>>, searchResults |-> <<>>,
   anchor |-> "", chainAt |-> 0, hotels |-> <<>>, msgs |-> <<>>, calls |-> <<>>, raised |-> FALSE,
   returned |-> FALSE, sends |-> <<>>, fn |-> "", input |-> <<>>, output |-> <<>>,
   hist0 |-> <<>>, batch |-> <<>>, nth |-> 0, outcomes |-> <<>>, status |-> "",
   seen |-> <<>>, racing |-> "", env |-> {},
   shape |-> [list |-> FALSE, marker |-> FALSE], store0 |-> <<>>]

\* the locals of the webhook handler that outlive the handling of one event: the
\* events of the delivery, the ones still to come, the number of events taken up
\* and what became of each event that was handled
Loop(me) ==
  [Idle EXCEPT !.events = me.events, !.batch = me.batch, !.nth = me.nth,
               !.outcomes = me.outcomes]

Set(p, rec) == proc' = [proc EXCEPT ![p] = rec]

\* ------------------------------------------------------- the webhook loop

\* lines 1075-1089, 1107 and 1151-1153: the next event of the batch is taken; for
\* a text the handler first asks the store whether the user has a document
BeginEvent(p) ==
  /\ proc[p].pc = "loop"
  /\ proc[p].events # <<>>
  /\ LET ev == Head(proc[p].events)
         next == [Loop(proc[p]) EXCEPT !.events = Tail(proc[p].events), !.ev = ev,
                                       !.nth = proc[p].nth + 1,
                                       !.user = ev.user, !.kind = ev.type,
                                       !.hist0 = store[ev.user], !.store0 = store]
     IN \/ /\ ev.type = "text"
           /\ \E docOk \in BOOLEAN :
                IF docOk
                THEN Set(p, [next EXCEPT !.pc = "dispatch",
                                         !.isFirst = ~Exists(store[ev.user])])
                ELSE Set(p, [next EXCEPT !.pc = "catch"])
        \/ /\ ev.type = "sticker"
           /\ Set(p, [next EXCEPT !.pc = "dispatch"])
        \/ /\ ev.type = "image"
           /\ Set(p, [next EXCEPT !.pc = "image"])
        \/ /\ ev.type = "other"
           /\ Set(p, [next EXCEPT !.pc = "evDone", !.ev = NoEvent])
  /\ UNCHANGED <<store, asked>>

\* what the if-chain of getAIResponseWithMedia decides for an event: the branch,
\* the place name it extracts, the outcome of the region gate and where it goes on
Route(ev) ==
  LET b == Classify(ev)
      R(pc, gate, dest, prompt) ==
        [branch |-> b, pc |-> pc, gate |-> gate, dest |-> dest, prompt |-> prompt]
  IN CASE b = "sticker" -> R("sticker", "", <<>>, <<>>)
       [] b = "recPlace" ->
            LET d == RecPlaceDestination(ev.text)
            IN IF isNorthern(d) THEN R("aiRead", "pass", d, RecPlacePrompt(d))
               ELSE R("gateReject", "reject", d, <<>>)
       [] b = "info" -> R("info", "", InfoPlaceName(ev.text), <<>>)
       [] b = "recHotel" ->
            LET d == HotelPlaceName(ev.text)
            IN IF isNorthern(d) THEN R("hotelAnchor", "pass", d, <<>>)
               ELSE R("gateReject", "reject", d, <<>>)
       [] b = "weather" -> R("weather", "", WeatherPlaceName(ev.text), <<>>)
       [] b = "map" -> R("map", "", MapPlaceName(ev.text), <<>>)
       [] b = "contact" -> R("contact", "", <<>>, <<>>)
       [] OTHER -> R("aiRead", "", <<>>, FallbackPrompt(ev))

\* lines 664-676 and the tests of lines 678-939: the typing indicator, the read of
\* the user's document (not guarded: its failure leaves the function), the
\* detection of the language, and the choice of the branch
Dispatch(p) ==
  /\ proc[p].pc = "dispatch"
  /\ \E loadOk \in BOOLEAN, docOk \in BOOLEAN, det \in DetectOutcomes :
       LET me == proc[p]
           c0 == <<Call("loading", <<>>, ""), Call("getDoc", <<>>, "")>>
           tr == translateText(Txt("userMessage", "user"), "", det, "ok")
           r == Route(me.ev)
       IN IF ~docOk
          THEN Set(p, [me EXCEPT !.pc = "catch", !.raised = TRUE, !.calls = c0,
                                 !.ev = NoEvent])
          ELSE Set(p, [me EXCEPT !.pc = r.pc, !.branch = r.branch, !.gate = r.gate,
                                 !.dest = r.dest, !.prompt = r.prompt,
                                 !.lang = IF me.kind = "text" THEN tr.lang ELSE "th",
                                 !.calls = IF me.kind = "text" THEN c0 \o TrCall ELSE c0])
  /\ UNCHANGED <<store, asked>>

\* the dispatcher returns its messages to the webhook handler
Return(me, msgs, calls) ==
  [me EXCEPT !.pc = "send", !.msgs = msgs, !.calls = me.calls \o calls,
             !.returned = TRUE]

\* a closing text without the menu
FollowUpBare(t, lang) == TextMsg(t.text, NoQuickReply)

\* the closing text of a branch, with the menu (eg lines 746-750)
FollowUp(t, lang) == TextMsg(t.text, createQuickReply(lang))

\* a sticker branch that greets a user with a history in another way
StickerBranchByHistory(p) ==
  /\ proc[p].pc = "sticker"
  /\ \E g \in Translations(IF Exists(store[proc[p].user]) THEN "greetingAgain"
                            ELSE "greeting", proc[p].lang) :
       Set(p, Return(proc[p], <<FollowUp(g, proc[p].lang)>>, TrCall))
  /\ UNCHANGED <<store, asked>>

\* lines 678-687
StickerBranch(p) ==
  /\ proc[p].pc = "sticker"
  /\ \E g \in Translations("greeting", proc[p].lang) :
       Set(p, Return(proc[p], <<FollowUp(g, proc[p].lang)>>, TrCall))
  /\ UNCHANGED <<store, asked>>

\* a gate that rejects only after the destination was looked up
GateRejectAfterSearch(p) ==
  /\ proc[p].pc = "gateReject"
  /\ \E e \in Translations("regionGuidance", proc[p].lang) :
       Set(p, Return(proc[p], <<FollowUp(e, proc[p].lang)>>,
                     <<Call("textsearch", PlaceQuery(proc[p].dest), "none")>> \o TrCall))
  /\ UNCHANGED <<store, asked>>

\* lines 700-707 and 801-808
GateReject(p) ==
  /\ proc[p].pc = "gateReject"
  /\ \E e \in Translations("regionGuidance", proc[p].lang) :
       Set(p, Return(proc[p], <<FollowUp(e, proc[p].lang)>>, TrCall))
  /\ UNCHANGED <<store, asked>>

\* a text-search call and what getLocationFromGooglePlaces made of its answer
SearchCall(placeName, resp) ==
  Call("textsearch", PlaceQuery(placeName),
       IF getLocationFromGooglePlaces(resp).found
       THEN getLocationFromGooglePlaces(resp).name ELSE "none")

WebSearchCall(resp) == Call("websearch", <<>>, "")

\* a message without text of its own: a card, a carousel, a pin, an image
Rich(type, id, n) == Msg(type, Txt(id, ""), n, NoQuickReply)

\* lines 755-794
InfoBranch(p) ==
  /\ proc[p].pc = "info"
  /\ \E resp \in PlaceResponses :
       LET me == proc[p]
           locationData == getLocationFromGooglePlaces(resp)
           c1 == <<SearchCall(me.dest, resp)>>
       IN IF locationData.found
          THEN \E detailsOk \in BOOLEAN, sresp \in SearchResponses :
                 \E sm \in Translations("moreAbout", me.lang),
                    fu \in Translations("followUpDated", me.lang) :
                   LET searchResults == searchPlaceWithCustomSearch("place", sresp)
                       c2 == c1 \o <<Call("details", <<locationData.name>>, ""),
                                     WebSearchCall(sresp)>>
                       found == [me EXCEPT !.searchResults = searchResults]
                   IN IF Len(searchResults) > 0
                      THEN Set(p, Return(found,
                             <<Rich("flex", "placeCard", 1),
                               Msg("text", sm.text, SearchLinks(searchResults), NoQuickReply),
                               FollowUp(fu, me.lang)>>,
                             c2 \o TrCall \o TrCall))
                      ELSE Set(p, Return(found,
                             <<Rich("flex", "placeCard", 1), FollowUp(fu, me.lang)>>,
                             c2 \o TrCall))
          ELSE \E e \in Translations("infoNotFound", me.lang) :
                 Set(p, Return(me, <<FollowUp(e, me.lang)>>, c1 \o TrCall))
  /\ UNCHANGED <<store, asked>>

\* lines 843-864: the card of the place; no weather service is asked
WeatherBranch(p) ==
  /\ proc[p].pc = "weather"
  /\ \E resp \in PlaceResponses :
       LET me == proc[p]
           locationData == getLocationFromGooglePlaces(resp)
           c1 == <<SearchCall(me.dest, resp)>>
       IN IF locationData.found
          THEN \E fu \in Translations("followUp", me.lang) :
                 Set(p, Return(me, <<Rich("flex", "placeCard", 1), FollowUp(fu, me.lang)>>,
                               c1 \o TrCall))
          ELSE \E e \in Translations("weatherNotFound", me.lang) :
                 Set(p, Return(me, <<FollowUp(e, me.lang)>>, c1 \o TrCall))
  /\ UNCHANGED <<store, asked>>

\* lines 866-894
MapBranch(p) ==
  /\ proc[p].pc = "map"
  /\ \E resp \in PlaceResponses :
       LET me == proc[p]
           locationData == getLocationFromGooglePlaces(resp)
           c1 == <<SearchCall(me.dest, resp)>>
       IN IF locationData.found
          THEN \E fu \in Translations("followUp", me.lang) :
                 Set(p, Return(me, <<Rich("location", "pin", 0), FollowUp(fu, me.lang)>>,
                               c1 \o TrCall))
          ELSE \E e \in Translations("mapNotFound", me.lang) :
                 Set(p, Return(me, <<FollowUp(e, me.lang)>>, c1 \o TrCall))
  /\ UNCHANGED <<store, asked>>

\* a contact branch that asks the completion service
ContactBranchAsking(p) ==
  /\ proc[p].pc = "contact"
  /\ Set(p, [proc[p] EXCEPT !.pc = "aiRead", !.prompt = <<"contact">>])
  /\ UNCHANGED <<store, asked>>

\* lines 896-937
ContactBranch(p) ==
  /\ proc[p].pc = "contact"
  /\ \E fu \in Translations("followUp", proc[p].lang) :
       Set(p, Return(proc[p],
                     <<Rich("imagemap", "contacts1", 0), Rich("imagemap", "contacts2", 0),
                       FollowUp(fu, proc[p].lang)>>,
                     TrCall))
  /\ UNCHANGED <<store, asked>>

\* ----------------------------------------------------------- getAIResponse

\* a fallback branch that looks for the marker before it looks for a list
AfterAIMarkerFirst(branch, aiResponse) ==
  IF branch = "ask" THEN "answered"
  ELSE IF branch = "plan" THEN "planPlaces"
  ELSE IF branch = "recPlace" THEN "resolve"
  ELSE IF HasImageMarker(aiResponse) THEN "plain"
  ELSE IF isPlaceList(aiResponse) THEN "resolve" ELSE "plain"

\* where a branch goes on with the completion text (lines 714, 940-941 and 1035)
AfterAI(branch, aiResponse) ==
  IF branch = "ask" THEN "answered"
  ELSE IF branch = "plan" THEN "planPlaces"
  ELSE IF branch = "recPlace" \/ isPlaceList(aiResponse) THEN "resolve" ELSE "plain"

\* lines 90-104: the access token and the read of the stored history; both
\* failures end the completion with a fixed apology
AIRead(p) ==
  /\ proc[p].pc = "aiRead"
  /\ \E tokenOk \in BOOLEAN, docOk \in BOOLEAN :
       LET me == proc[p]
           c1 == <<Call("token", <<>>, "")>>
           c2 == c1 \o <<Call("getDoc", <<>>, "")>>
       IN IF ~tokenOk
          THEN Set(p, [me EXCEPT !.pc = AfterAI(me.branch, ApologyNoToken),
                                 !.aiResponse = ApologyNoToken, !.calls = me.calls \o c1])
          ELSE IF ~docOk
          THEN Set(p, [me EXCEPT !.pc = AfterAI(me.branch, ApologyError),
                                 !.aiResponse = ApologyError, !.calls = me.calls \o c2])
          ELSE Set(p, [me EXCEPT !.pc = "aiWrite", !.calls = me.calls \o c2,
                                 !.seen = store[me.user],
                                 !.chatHistory = ReadHistory(store[me.user], <<>>)])
  /\ UNCHANGED <<store, asked>>

\* the place of a write among the writes of concurrent completions for the same
\* user: "first" when another completion has read the history and not yet
\* written, "last" when the write follows such a first write that came after
\* this completion's own read
Racing(p) ==
  IF \E o \in Procs \ {p} : /\ proc[o].pc = "aiWrite"
                             /\ proc[o].user = proc[p].user
     THEN "first"
  ELSE IF \E o \in Procs \ {p} : /\ proc[o].racing = "first"
                                  /\ proc[o].user = proc[p].user
     THEN "last"
  ELSE ""

\* a completion that stores the user turn before it makes its request
AIWriteUserTurnFirst(p) ==
  /\ proc[p].pc = "aiWrite"
  /\ \E postOk \in BOOLEAN, candidate \in CompletionsOf(proc[p].branch),
        writeOk \in BOOLEAN :
       LET me == proc[p]
           messages == RequestContents(me.chatHistory, me.prompt)
           aiResponse == CandidateText(candidate)
           c1 == <<Call("complete", <<>>, "")>>
           c2 == c1 \o <<Call("setDoc", <<>>, "")>>
           sent == [me EXCEPT !.request = messages, !.before = store[me.user]]
       IN IF ~postOk
          THEN /\ Set(p, [sent EXCEPT !.pc = AfterAI(me.branch, ApologyError),
                                      !.aiResponse = ApologyError,
                                      !.calls = me.calls \o c1])
               /\ store' = [store EXCEPT
                              ![me.user] = ArrayUnion(Stored(store[me.user]),
                                                      <<UserTurn(me.prompt)>>)]
               /\ UNCHANGED asked
          ELSE IF ~writeOk
          THEN /\ Set(p, [sent EXCEPT !.pc = AfterAI(me.branch, ApologyError),
                                      !.aiResponse = ApologyError,
                                      !.calls = me.calls \o c2])
               /\ UNCHANGED <<store, asked>>
          ELSE /\ Set(p, [sent EXCEPT !.pc = AfterAI(me.branch, aiResponse),
                                      !.aiResponse = aiResponse, !.wrote = TRUE,
                                      !.racing = Racing(p),
                                      !.calls = me.calls \o c2])
               /\ store' = [store EXCEPT
                              ![me.user] = WriteHistory(store[me.user], messages, aiResponse)]
               /\ UNCHANGED asked

\* lines 113-135: the completion request and the write of the history
AIWrite(p) ==
  /\ proc[p].pc = "aiWrite"
  /\ \E postOk \in BOOLEAN, candidate \in CompletionsOf(proc[p].branch),
        writeOk \in BOOLEAN :
       LET me == proc[p]
           messages == RequestContents(me.chatHistory, me.prompt)
           aiResponse == CandidateText(candidate)
           c1 == <<Call("complete", <<>>, "")>>
           c2 == c1 \o <<Call("setDoc", <<>>, "")>>
           sent == [me EXCEPT !.request = messages, !.before = store[me.user]]
       IN IF ~postOk
          THEN /\ Set(p, [sent EXCEPT !.pc = AfterAI(me.branch, ApologyError),
                                      !.aiResponse = ApologyError,
                                      !.calls = me.calls \o c1])
               /\ UNCHANGED <<store, asked>>
          ELSE IF ~writeOk
          THEN /\ Set(p, [sent EXCEPT !.pc = AfterAI(me.branch, ApologyError),
                                      !.aiResponse = ApologyError,
                                      !.calls = me.calls \o c2])
               /\ UNCHANGED <<store, asked>>
          ELSE /\ Set(p, [sent EXCEPT !.pc = AfterAI(me.branch, aiResponse),
                                      !.aiResponse = aiResponse, !.wrote = TRUE,
                                      !.racing = Racing(p),
                                      !.calls = me.calls \o c2])
               /\ store' = [store EXCEPT
                              ![me.user] = WriteHistory(store[me.user], messages, aiResponse)]
               /\ UNCHANGED asked

\* -------------------------------------------------- places, hotels, carousels

\* the ghost fields of getAIResponse are dropped once the branch goes on
Forget(me) ==
  [me EXCEPT !.prompt = <<>>, !.chatHistory = <<>>, !.request = <<>>, !.before = <<>>,
             !.wrote = FALSE, !.seen = <<>>, !.racing = ""]

\* the answers of n concurrent lookups
Answers(n, S) == IF n = 0 THEN {<<>>} ELSE [1..n -> S]

\* data => data, then data.name (lines 718 and 946)
FoundNames(rs) ==
  LET found == SelectSeq(rs, LAMBDA r : getLocationFromGooglePlaces(r).found)
  IN [i \in 1..Len(found) |-> getLocationFromGooglePlaces(found[i]).name]

\* lines 714-718 and 942-946: every extracted name is looked up, the found ones kept
ResolvePlaces(p) ==
  /\ proc[p].pc = "resolve"
  /\ LET me == Forget(proc[p])
         places == ExtractPlaces(me.aiResponse)
     IN \E rs \in Answers(Len(places), PlaceResponses) :
          Set(p, [me EXCEPT !.pc = "search", !.validPlaces = FoundNames(rs),
                            !.shape = IF me.branch = "fallback" THEN Shape(me.aiResponse)
                                      ELSE me.shape,
                            !.aiResponse = <<>>,
                            !.calls = me.calls \o
                                        [i \in 1..Len(places) |-> SearchCall(places[i], rs[i])]])
  /\ UNCHANGED <<store, asked>>

\* lines 720-721 and 948-949: one web search for every place that was found
SearchPlaces(p) ==
  /\ proc[p].pc = "search"
  /\ LET me == proc[p]
     IN \E srs \in Answers(Len(me.validPlaces), SearchResponses) :
          Set(p, [me EXCEPT
                    !.pc = IF me.branch = "recPlace" THEN "hotelAnchor" ELSE "assemble",
                    !.searchResults =
                       [i \in 1..Len(srs) |-> searchPlaceWithCustomSearch("place", srs[i])],
                    !.calls = me.calls \o [i \in 1..Len(srs) |-> WebSearchCall(srs[i])]])
  /\ UNCHANGED <<store, asked>>

\* a chain that goes from the first default city straight to the coordinates
AnchorChainSkipB(placeName, r1, r2, r3) ==
  LET l1 == getLocationFromGooglePlaces(r1)
      l2 == getLocationFromGooglePlaces(r2)
      c1 == <<SearchCall(placeName, r1)>>
      c2 == c1 \o <<SearchCall(CityA, r2)>>
  IN IF l1.found THEN [anchor |-> l1.name, calls |-> c1]
     ELSE IF l2.found THEN [anchor |-> l2.name, calls |-> c2]
     ELSE [anchor |-> HardCoded, calls |-> c2]

\* lines 282-299: the anchor of the nearby search, given the answers the three
\* text searches would get; a later search is made only when the earlier found nothing
AnchorChain(placeName, r1, r2, r3) ==
  LET l1 == getLocationFromGooglePlaces(r1)
      l2 == getLocationFromGooglePlaces(r2)
      l3 == getLocationFromGooglePlaces(r3)
      c1 == <<SearchCall(placeName, r1)>>
      c2 == c1 \o <<SearchCall(CityA, r2)>>
      c3 == c2 \o <<SearchCall(CityB, r3)>>
  IN IF l1.found THEN [anchor |-> l1.name, calls |-> c1]
     ELSE IF l2.found THEN [anchor |-> l2.name, calls |-> c2]
     ELSE IF l3.found THEN [anchor |-> l3.name, calls |-> c3]
     ELSE [anchor |-> HardCoded, calls |-> c3]

\* lines 281-299
HotelAnchor(p) ==
  /\ proc[p].pc = "hotelAnchor"
  /\ \E r1 \in PlaceResponses, r2 \in PlaceResponses, r3 \in PlaceResponses :
       LET me == proc[p]
           a == AnchorChain(me.dest, r1, r2, r3)
       IN Set(p, [me EXCEPT !.pc = "hotelNearby", !.anchor = a.anchor,
                            !.chainAt = Len(me.calls), !.calls = me.calls \o a.calls])
  /\ UNCHANGED <<store, asked>>

\* lines 301-329
HotelNearby(p) ==
  /\ proc[p].pc = "hotelNearby"
  /\ \E resp \in NearbyResponses :
       LET me == proc[p]
       IN Set(p, [me EXCEPT
                    !.pc = "assemble", !.hotels = HotelsOf(resp),
                    !.calls = me.calls \o
                                <<Call("nearby", <<me.anchor>>, "")>>])
  /\ UNCHANGED <<store, asked>>

\* [...new Set(places)]
Unique(names) == ArrayUnion(<<>>, names)

\* lines 511-572: every distinct name is looked up again; the carousel has one
\* bubble for each that is found
createRecommendationCarousel(rs) ==
  IF Len(FoundNames(rs)) = 0 THEN TextMsg(Txt("noPlaces", "th"), NoQuickReply)
  ELSE Rich("flex", "placeCarousel", Len(FoundNames(rs)))

\* a hotel carousel whose fallback text carries the menu
HotelFallbackWithMenu(hotels) ==
  IF Len(hotels) = 0 THEN TextMsg(Txt("noHotels", "th"), createQuickReply("th"))
  ELSE Rich("flex", "hotelCarousel", Len(hotels))

\* lines 574-631
createHotelRecommendationCarousel(hotels) ==
  IF Len(hotels) = 0 THEN TextMsg(Txt("noHotels", "th"), NoQuickReply)
  ELSE Rich("flex", "hotelCarousel", Len(hotels))

\* a summary that is left out when no link survived the filter
SummaryWhenLinks(searchResults, sm) ==
  IF Len(Flat(searchResults)) > 0
  THEN <<Msg("text", sm.text, SearchLinks(Flat(searchResults)), NoQuickReply)>>
  ELSE <<>>

\* lines 736-743, 820-827 and 956-963: the summary of the links, present whenever
\* the list of searches is not empty
Summary(searchResults, sm) ==
  IF Len(searchResults) > 0
  THEN <<Msg("text", sm.text, SearchLinks(Flat(searchResults)), NoQuickReply)>>
  ELSE <<>>

SummaryCalls(searchResults, sm) == IF Len(searchResults) > 0 THEN TrCall ELSE <<>>

\* lines 723-752 (recommend places) and 951-976 (a list in the fallback branch)
AssemblePlaces(p) ==
  /\ proc[p].pc = "assemble"
  /\ proc[p].branch \in {"recPlace", "fallback"}
  /\ LET me == proc[p]
         names == Unique(IF me.branch = "recPlace" THEN FirstN(me.validPlaces, 5)
                         ELSE me.validPlaces)
     IN \E rs \in Answers(Len(names), PlaceResponses) :
        \E fu \in Translations("followUpDated", me.lang),
           sm \in Translations("morePlaces", me.lang) :
          LET lookups == [i \in 1..Len(names) |-> SearchCall(<<names[i]>>, rs[i])]
              placeCarousel == createRecommendationCarousel(rs)
              hotelCarousel == createHotelRecommendationCarousel(FirstN(me.hotels, 5))
          IN IF me.branch = "recPlace"
             THEN Set(p, Return(me,
                    <<placeCarousel>> \o Summary(me.searchResults, sm)
                      \o <<hotelCarousel, FollowUp(fu, me.lang)>>,
                    lookups \o TrCall \o SummaryCalls(me.searchResults, sm)))
             ELSE Set(p, Return(me,
                    <<placeCarousel>> \o Summary(me.searchResults, sm)
                      \o <<FollowUp(fu, me.lang)>>,
                    lookups \o SummaryCalls(me.searchResults, sm) \o TrCall))
  /\ UNCHANGED <<store, asked>>

\* lines 810-840
AssembleHotels(p) ==
  /\ proc[p].pc = "assemble"
  /\ proc[p].branch = "recHotel"
  /\ LET me == proc[p]
     IN \E srs \in Answers(Len(me.hotels), SearchResponses) :
        \E sm \in Translations("moreHotels", me.lang),
           fu \in Translations("followUpDated", me.lang) :
          LET searchResults ==
                [i \in 1..Len(srs) |-> searchPlaceWithCustomSearch("hotel", srs[i])]
          IN Set(p, Return([me EXCEPT !.searchResults = searchResults],
                 <<createHotelRecommendationCarousel(me.hotels)>>
                   \o Summary(searchResults, sm) \o <<FollowUp(fu, me.lang)>>,
                 [i \in 1..Len(srs) |-> WebSearchCall(srs[i])]
                   \o SummaryCalls(searchResults, sm) \o TrCall))
  /\ UNCHANGED <<store, asked>>

\* lines 979-1002: the placeholder image, or the translated completion
FallbackPlain(p) ==
  /\ proc[p].pc = "plain"
  /\ LET me == [Forget(proc[p]) EXCEPT !.shape = Shape(proc[p].aiResponse)]
     IN IF HasImageMarker(me.aiResponse)
        THEN \E fu \in Translations("followUp", me.lang) :
               Set(p, Return(me, <<Rich("image", "placeholder", 0), FollowUp(fu, me.lang)>>,
                             TrCall))
        ELSE \E t \in TranslationsOf(Txt("completion", "ai"), me.lang) :
               Set(p, Return(me, <<FollowUp(t, me.lang)>>, TrCall))
  /\ UNCHANGED <<store, asked>>

\* ------------------------------------------------------ the image handler

\* what analyzeImage returns (lines 357-396): null, a landmark, labels, or neither
Analyses == {"null", "landmark", "labels", "nothing"}

\* lines 1107-1150, up to the send: the text the image is answered with
Image(p) ==
  /\ proc[p].pc = "image"
  /\ \E loadOk \in BOOLEAN, downloaded \in BOOLEAN, analysis \in Analyses,
        det \in DetectOutcomes :
       LET me == [proc[p] EXCEPT !.ev = NoEvent]
           c0 == <<Call("loading", <<>>, ""), Call("download", <<>>, "")>>
           lang == translateText(Txt("thisImage", "th"), "", det, "ok")
           id == CASE analysis = "landmark" -> "landmark"
                   [] analysis = "labels" -> "labels"
                   [] OTHER -> "cannotAnalyze"
       IN IF downloaded
          THEN \E m \in Translations(id, lang.lang) :
                 Set(p, [me EXCEPT !.pc = "send", !.lang = lang.lang,
                                   !.msgs = <<FollowUp(m, lang.lang)>>,
                                   !.calls = c0 \o <<Call("vision", <<>>, "")>>
                                                \o TrCall \o TrCall])
          ELSE \E m \in Translations("cannotDownload", "th") :
                 Set(p, [me EXCEPT !.pc = "send", !.msgs = <<FollowUp(m, "th")>>,
                                   !.calls = c0 \o TrCall])
  /\ UNCHANGED <<store, asked>>

\* ------------------------------------------------------------ the transport

\* a quickReply object that has no items list
QuickReplyWithoutItems == <<[type |-> "noItems", label |-> NoTxt, payload |-> ""]>>

\* lines 420-428: the structure every message of a reply batch must have; a text
\* with the id "" is a missing or empty text
ValidMessage(msg) ==
  /\ msg.type # ""
  /\ msg.type = "text" => msg.text.id # ""
  /\ msg.qr # QuickReplyWithoutItems

ValidBatch(msgs) == \A i \in 1..Len(msgs) : ValidMessage(msgs[i])

\* lines 446-451: the structure every message of a push batch must have
ValidPushMessage(msg) ==
  /\ msg.type # ""
  /\ msg.type = "text" => msg.text.id # ""

ValidPushBatch(msgs) == \A i \in 1..Len(msgs) : ValidPushMessage(msgs[i])

\* lines 430-434 and 453-460: the posts made to the transport, each with the
\* whole batch
TransportCalls(valid, msgs) == IF valid THEN <<msgs>> ELSE <<>>

\* lines 443-466: a function that raises exactly when it is not ok
pushToLine(msgs, transportOk) ==
  SendRec("push", Len(msgs), FALSE, ValidPushBatch(msgs), ValidPushBatch(msgs) /\ transportOk)

\* lines 417-441: a batch that fails validation never reaches the transport
sendToLine(what, msgs, welcome, transportOk) ==
  SendRec(what, Len(msgs), welcome, ValidBatch(msgs), ValidBatch(msgs) /\ transportOk)

\* a handler that takes a failed send for a delivered one
SentAndDone(me, pc, sent) ==
  [Loop(me) EXCEPT !.pc = "evDone", !.sends = me.sends \o <<sent>>]

\* the locals that are still alive once sendToLine was called
Sent(me, pc, sent) ==
  [Loop(me) EXCEPT !.pc = pc, !.sends = me.sends \o <<sent>>]

\* a welcome for every user without a document, menu or no menu
NeedsWelcomeWhateverTheMenu(me) ==
  /\ me.kind = "text"
  /\ me.isFirst
  /\ Len(me.msgs) > 0

\* lines 1091-1102: the welcome text for a user without a document, when the last
\* message carries no menu
NeedsWelcome(me) ==
  /\ me.kind = "text"
  /\ me.isFirst
  /\ Len(me.msgs) > 0
  /\ me.msgs[Len(me.msgs)].qr = NoQuickReply

\* lines 1091-1106, 1135-1139, 1145-1149 and 1154: the reply is sent; a failed
\* send is thrown into the catch block
Send(p) ==
  /\ proc[p].pc = "send"
  /\ LET me == proc[p]
         Reply(batch, welcome, transportOk) ==
           LET sent == sendToLine("reply", batch, welcome, transportOk)
           IN Set(p, Sent(me, IF sent.ok THEN "evDone" ELSE "catch", sent))
     IN IF NeedsWelcome(me)
        THEN \E det \in DetectOutcomes, transportOk \in BOOLEAN :
               LET wl == translateText(Txt("userMessage", "user"), "", det, "ok")
               IN \E w \in Translations("welcome", wl.lang) :
                    Reply(me.msgs \o <<FollowUp(w, wl.lang)>>, TRUE, transportOk)
        ELSE IF me.kind = "text" /\ Len(me.msgs) = 0
        THEN Set(p, [Loop(me) EXCEPT !.pc = "evDone"])
        ELSE \E transportOk \in BOOLEAN : Reply(me.msgs, FALSE, transportOk)
  /\ UNCHANGED <<store, asked>>

\* a catch block that sends the error text again until it is taken
CatchAndRetry(p) ==
  /\ proc[p].pc = "catch"
  /\ \E e \in Translations("processingError", "th"), transportOk \in BOOLEAN :
       LET me == proc[p]
           batch == <<FollowUp(e, "th")>>
           sent == sendToLine("error", batch, FALSE, transportOk)
       IN Set(p, [Sent(me, IF sent.ok THEN "evDone" ELSE "catch", sent)
                    EXCEPT !.msgs = batch])
  /\ UNCHANGED <<store, asked>>

\* lines 1156-1168: one generic error text; its failure is logged and dropped
Catch(p) ==
  /\ proc[p].pc = "catch"
  /\ \E e \in Translations("processingError", "th"), transportOk \in BOOLEAN :
       LET me == proc[p]
           batch == <<FollowUp(e, "th")>>
       IN Set(p, [Sent(me, "evDone", sendToLine("error", batch, FALSE, transportOk))
                    EXCEPT !.msgs = batch])
  /\ UNCHANGED <<store, asked>>

\* what became of an event: the reply was delivered, the generic error text was
\* delivered, or nothing was
Outcome(sends) ==
  IF \E i \in 1..Len(sends) : sends[i].what = "reply" /\ sends[i].ok THEN "replied"
  ELSE IF \E i \in 1..Len(sends) : sends[i].what = "error" /\ sends[i].ok THEN "error"
  ELSE "none"

\* a loop that is left when an event got no reply at all
EndEventOrLeave(p) ==
  /\ proc[p].pc = "evDone"
  /\ Set(p, [Loop(proc[p]) EXCEPT
               !.pc = "loop",
               !.events = IF Outcome(proc[p].sends) = "none" THEN <<>>
                          ELSE proc[p].events,
               !.outcomes = Append(proc[p].outcomes, Outcome(proc[p].sends))])
  /\ UNCHANGED <<store, asked>>

\* line 1075: the loop goes on with the next event
EndEvent(p) ==
  /\ proc[p].pc = "evDone"
  /\ Set(p, [Loop(proc[p]) EXCEPT
               !.pc = "loop",
               !.outcomes = Append(proc[p].outcomes, Outcome(proc[p].sends))])
  /\ UNCHANGED <<store, asked>>

\* line 1171
Ack(p) ==
  /\ proc[p].pc = "loop"
  /\ proc[p].events = <<>>
  /\ Set(p, [Loop(proc[p]) EXCEPT !.pc = "acked", !.status = "200"])
  /\ UNCHANGED <<store, asked>>

\* lines 1068-1075: a delivery arrives with one message event
Receive(p) ==
  /\ proc[p].pc = "idle"
  /\ \E ev \in Events :
       Set(p, [Idle EXCEPT !.pc = "loop", !.events = <<ev>>, !.batch = <<ev>>])
  /\ UNCHANGED <<store, asked>>

\* the events of the deliveries with several events: a sticker, an image, the
\* contact sentence, a recommend-places text for a place outside the region, and
\* an event that is no text, image or sticker message
BatchEvents ==
  {Event("sticker", u, <<>>) : u \in Users}
    \cup {Event("image", u, <<>>) : u \in Users}
    \cup {Event("text", u, t) : u \in Users, t \in {<<"contact">>, <<"recPlace", "chat">>}}
    \cup {Event("other", u, <<>>) : u \in Users}

Deliveries == UNION {[1..n -> BatchEvents] : n \in 0..MaxEvents}

\* lines 1068-1075: a delivery arrives with a list of events
ReceiveBatch(p) ==
  /\ proc[p].pc = "idle"
  /\ \E evs \in Deliveries :
       Set(p, [Idle EXCEPT !.pc = "loop", !.events = evs, !.batch = evs])
  /\ UNCHANGED <<store, asked>>

\* lines 1069-1073: a delivery whose events are missing or no list is answered 400
RejectDelivery(p) ==
  /\ proc[p].pc = "idle"
  /\ Set(p, [Idle EXCEPT !.pc = "rejected", !.status = "400"])
  /\ UNCHANGED <<store, asked>>

\* ------------------------------------------- a direct caller of getAIResponse

\* the prompts of the history specification: two that earlier runs asked already
\* and one they did not
AskPrompts == {<<"chat">>, <<"chat", "chat">>, <<"province">>}

\* a caller hands getAIResponse a prompt (lines 712, 939 and 1032)
Ask(p) ==
  /\ proc[p].pc \in {"idle", "answered"}
  /\ asked < MaxAsks
  /\ \E u \in Users, prompt \in AskPrompts :
       Set(p, [Idle EXCEPT !.pc = "aiRead", !.user = u, !.branch = "ask",
                           !.prompt = prompt])
  /\ asked' = asked + 1
  /\ UNCHANGED store

\* ------------------------------------------------- the functions on their own

\* the entries of the result sets: named by their position, with or without
\* geometry, rating and rating count missing (0) or 1
EntryNames == <<"e1", "e2", "e3", "e4", "e5", "e6">>

EntryKinds == [geo : BOOLEAN, rating : 0..1, count : 0..1]

ResultSets(most) ==
  UNION {{[i \in 1..n |-> Entry(EntryNames[i], k[i].geo, k[i].rating, k[i].count)] :
            k \in [1..n -> EntryKinds]} : n \in 0..most}

\* what a search can answer: a failure or a result set
ResultAnswers(most) == {Failed} \cup {Response(TRUE, r) : r \in ResultSets(most)}

\* a function was applied: its name, its input and what it returned
Applied(fn, input, output) ==
  [Idle EXCEPT !.pc = "applied", !.fn = fn, !.input = input, !.output = output]

\* lines 157-204 for one answer of the text search
CallResolver(p) ==
  /\ proc[p].pc = "idle"
  /\ \E resp \in ResultAnswers(MaxResults) :
       Set(p, Applied("getLocationFromGooglePlaces", resp, getLocationFromGooglePlaces(resp)))
  /\ UNCHANGED <<store, asked>>

\* lines 301-329 for one answer of the nearby search
CallHotels(p) ==
  /\ proc[p].pc = "idle"
  /\ \E resp \in ResultAnswers(MaxResults) :
       Set(p, Applied("getHotelsNearPlace", resp, HotelsOf(resp)))
  /\ UNCHANGED <<store, asked>>

\* the messages a batch can be made of: with and without type, text and menu
MessageKinds ==
  {Msg(type, Txt(id, "th"), 0, qr) :
     type \in {"", "text", "flex"}, id \in {"", "hello"},
     qr \in {NoQuickReply, createQuickReply("th"), QuickReplyWithoutItems}}

Batches == UNION {[1..n -> MessageKinds] : n \in 1..MaxBatch}

\* lines 417-441 for one batch
CallSend(p) ==
  /\ proc[p].pc = "idle"
  /\ \E msgs \in Batches, transportOk \in BOOLEAN :
       Set(p, Applied("sendToLine", msgs,
                      [sent |-> sendToLine("reply", msgs, FALSE, transportOk),
                       posts |-> TransportCalls(ValidBatch(msgs), msgs)]))
  /\ UNCHANGED <<store, asked>>

\* lines 443-466 for one batch
CallPush(p) ==
  /\ proc[p].pc = "idle"
  /\ \E msgs \in Batches, transportOk \in BOOLEAN :
       Set(p, Applied("pushToLine", msgs,
                      [sent |-> pushToLine(msgs, transportOk),
                       posts |-> TransportCalls(ValidPushBatch(msgs), msgs)]))
  /\ UNCHANGED <<store, asked>>

\* the string inputs of translateText: two sentences in each language
Sentences == {Txt(id, lang) : id \in {"hello", "bye"}, lang \in Langs}

\* lines 138-155 for one string text, one target and one pair of answers of the
\* translation service
CallTranslate(p) ==
  /\ proc[p].pc = "idle"
  /\ \E text \in Sentences, targetLang \in Langs \cup {""},
        det \in DetectOutcomes, tr \in TranslateOutcomes :
       Set(p, Applied("translateText",
                      [text |-> text, targetLang |-> targetLang, det |-> det, tr |-> tr],
                      [result |-> translateText(text, targetLang, det, tr),
                       calls |-> TranslateLog(targetLang, det)]))
  /\ UNCHANGED <<store, asked>>

\* lines 138-142 for one value that is no string
CallTranslateValue(p) ==
  /\ proc[p].pc = "idle"
  /\ \E value \in NonStrings :
       Set(p, Applied("translateText of a non-string", value,
                      [result |-> translateNonString(value), calls |-> <<>>]))
  /\ UNCHANGED <<store, asked>>

\* the completions handed to the extraction: every sequence of lines
Responses == UNION {[1..n -> Lines] : n \in 0..MaxLines}

\* lines 714-716 and 942-944 for one completion
CallExtract(p) ==
  /\ proc[p].pc = "idle"
  /\ \E aiResponse \in Responses :
       Set(p, Applied("places", aiResponse, ExtractPlaces(aiResponse)))
  /\ UNCHANGED <<store, asked>>

\* the candidate names handed to the carousel and the place each is resolved to
\* when its lookup finds one; two of the names lead to the same place
CandidateNames == {"A", "B", "C"}

PlaceOf(name) == IF name = "B" THEN "placeB" ELSE "placeA"

\* what the lookup of a name can answer: a failure, a result without geometry,
\* or its place
LookupKinds == {"failed", "nothing", "place"}

LookupAnswer(name, kind) ==
  IF kind = "failed" THEN Failed
  ELSE IF kind = "nothing" THEN Response(TRUE, <<Entry(PlaceOf(name), FALSE, 1, 1)>>)
  ELSE Response(TRUE, <<Entry(PlaceOf(name), TRUE, 1, 1)>>)

\* the orders in which n concurrent lookups can complete
Orders(n) ==
  {o \in [1..n -> 1..n] : \A i \in 1..n : \E k \in 1..n : o[k] = i}

\* a join that lists the values as they were settled
PromiseAllAsSettled(values, order) == [k \in 1..Len(order) |-> values[order[k]]]

\* Promise.all: every value is put in the slot of its promise when it is settled
RECURSIVE Settle(_, _, _)
Settle(slots, values, order) ==
  IF order = <<>> THEN slots
  ELSE Settle([slots EXCEPT ![Head(order)] = values[Head(order)]], values, Tail(order))

\* line 514: await Promise.all(locationDataPromises); a slot holds a failure
\* until its promise is settled
PromiseAll(values, order) ==
  Settle([i \in 1..Len(values) |-> Failed], values, order)

\* lines 511-572 for one list of names, one answer for every name and one order
\* of completion
CallCarousel(p) ==
  /\ proc[p].pc = "idle"
  /\ \E places \in UNION {[1..n -> CandidateNames] : n \in 0..MaxNames},
        kind \in [CandidateNames -> LookupKinds] :
       LET uniquePlaces == Unique(places)
           answers == [i \in 1..Len(uniquePlaces) |->
                         LookupAnswer(uniquePlaces[i], kind[uniquePlaces[i]])]
       IN \E order \in Orders(Len(uniquePlaces)) :
            LET locationData == PromiseAll(answers, order)
            IN Set(p, Applied("createRecommendationCarousel",
                              [places |-> places, kind |-> kind, order |-> order],
                              [message |-> createRecommendationCarousel(locationData),
                               bubbles |-> FoundNames(locationData)]))
  /\ UNCHANGED <<store, asked>>

\* the language codes a menu is asked for: the three the detector answers in
\* the model and more of those it can answer
MenuLangs == Langs \cup {"zh", "ko", "fr", "de", "es", "ru", "lo", "my"}

\* lines 633-662 for two languages
CallQuickReply(p) ==
  /\ proc[p].pc = "idle"
  /\ \E a \in MenuLangs, b \in MenuLangs :
       Set(p, Applied("createQuickReply", <<a, b>>,
                      <<createQuickReply(a), createQuickReply(b)>>))
  /\ UNCHANGED <<store, asked>>

\* ----------------------------------------------------- the plan submission

\* line 1006: the nine fields of the form
PlanFields ==
  {"userId", "startLocation", "destination", "budget", "preference", "travelWith",
   "transport", "travelDateStart", "travelDateEnd"}

\* lines 1005-1035: a form arrives; missing holds the fields that are missing or
\* empty; a complete form is made into the plan prompt for getAIResponse
SubmitPlan(p) ==
  /\ proc[p].pc = "idle"
  /\ asked < MaxAsks
  /\ \E u \in Users, missing \in SUBSET PlanFields :
       IF missing # {}
       THEN Set(p, [Idle EXCEPT !.pc = "planDone", !.fn = "/submit-travel-plan",
                                !.input = missing, !.status = "400"])
       ELSE Set(p, [Idle EXCEPT !.pc = "aiRead", !.fn = "/submit-travel-plan",
                                !.input = missing, !.user = u, !.branch = "plan",
                                !.dest = <<"province">>, !.prompt = <<"plan">>])
  /\ asked' = asked + 1
  /\ UNCHANGED store

\* lines 1037-1046: the place names of the plan, the place carousel of the first
\* three, and the plan text as the first message
PlanPlaces(p) ==
  /\ proc[p].pc = "planPlaces"
  /\ LET me == Forget(proc[p])
         names == Unique(FirstN(ExtractPlanPlaces(me.aiResponse), 3))
     IN \E rs \in Answers(Len(names), PlaceResponses) :
          LET placeCarousel == createRecommendationCarousel(rs)
          IN Set(p, [me EXCEPT
                       !.pc = "hotelAnchor",
                       !.msgs = <<TextMsg(Txt("plan", "th"), NoQuickReply)>>
                                  \o (IF placeCarousel.type = "flex"
                                      THEN <<placeCarousel>> ELSE <<>>),
                       !.calls = me.calls \o
                                   [i \in 1..Len(names) |-> SearchCall(names[i], rs[i])]])
  /\ UNCHANGED <<store, asked>>

\* a handler that answers 200 whatever became of the push
PlanPushAnd200(p) ==
  /\ proc[p].pc = "assemble"
  /\ proc[p].branch = "plan"
  /\ \E transportOk \in BOOLEAN :
       LET me == proc[p]
           hotelCarousel == createHotelRecommendationCarousel(FirstN(me.hotels, 2))
           messages == me.msgs
                         \o (IF hotelCarousel.type = "flex" THEN <<hotelCarousel>> ELSE <<>>)
                         \o <<TextMsg(Txt("followUp", "th"), createQuickReply("th"))>>
           sent == pushToLine(messages, transportOk)
       IN Set(p, [me EXCEPT !.pc = "planDone", !.msgs = messages, !.sends = <<sent>>,
                            !.status = "200"])
  /\ UNCHANGED <<store, asked>>

\* lines 1042-1065: the hotel carousel of the first two hotels, the messages, the
\* push, and the answer: 200 after the push, 500 when the push raised
PlanPush(p) ==
  /\ proc[p].pc = "assemble"
  /\ proc[p].branch = "plan"
  /\ \E transportOk \in BOOLEAN :
       LET me == proc[p]
           hotelCarousel == createHotelRecommendationCarousel(FirstN(me.hotels, 2))
           messages == me.msgs
                         \o (IF hotelCarousel.type = "flex" THEN <<hotelCarousel>> ELSE <<>>)
                         \o <<TextMsg(Txt("followUp", "th"), createQuickReply("th"))>>
           sent == pushToLine(messages, transportOk)
       IN Set(p, [me EXCEPT !.pc = "planDone", !.msgs = messages, !.sends = <<sent>>,
                            !.status = IF sent.ok THEN "200" ELSE "500"])
  /\ UNCHANGED <<store, asked>>

\* the request is over
PlanAnswered(p) ==
  /\ proc[p].pc = "planDone"
  /\ Set(p, Idle)
  /\ UNCHANGED <<store, asked>>

\* ------------------------------------------------------------- the startup

\* lines 24-38
requiredEnvVars ==
  <<"FIREBASE_API_KEY", "FIREBASE_AUTH_DOMAIN", "FIREBASE_PROJECT_ID",
    "FIREBASE_STORAGE_BUCKET", "FIREBASE_MESSAGING_SENDER_ID", "FIREBASE_APP_ID",
    "GOOGLE_APPLICATION_CREDENTIALS", "GOOGLE_PLACES_API_KEY", "GOOGLE_VISION_API_KEY",
    "LINE_ACCESS_TOKEN", "PROJECT_ID", "GOOGLE_CUSTOM_SEARCH_API_KEY",
    "GOOGLE_CUSTOM_SEARCH_ENGINE_ID">>

\* the process environments: the required variables that are set to a non-empty
\* value (line 40 takes an empty value for a missing one)
Environments == SUBSET Range(requiredEnvVars)

\* a check that reports a missing variable and goes on
CheckEnvAndGoOn(p) ==
  /\ proc[p].pc = "checkEnv"
  /\ proc[p].nth < Len(requiredEnvVars)
  /\ Set(p, [proc[p] EXCEPT !.nth = proc[p].nth + 1])
  /\ UNCHANGED <<store, asked>>

\* lines 39-44: one round of the loop over the required variables
CheckEnv(p) ==
  /\ proc[p].pc = "checkEnv"
  /\ proc[p].nth < Len(requiredEnvVars)
  /\ LET envVar == requiredEnvVars[proc[p].nth + 1]
     IN IF envVar \notin proc[p].env
        THEN Set(p, [proc[p] EXCEPT !.pc = "exited", !.status = "1"])
        ELSE Set(p, [proc[p] EXCEPT !.nth = proc[p].nth + 1])
  /\ UNCHANGED <<store, asked>>

\* lines 46-1175: the loop is through, the clients are set up, the routes are
\* registered and the server listens
Listen(p) ==
  /\ proc[p].pc = "checkEnv"
  /\ proc[p].nth = Len(requiredEnvVars)
  /\ Set(p, [proc[p] EXCEPT !.pc = "listening"])
  /\ UNCHANGED <<store, asked>>

\* lines 1005 and 1068: a request to one of the two routes is taken up
Serve(p) ==
  /\ proc[p].pc = "listening"
  /\ \E route \in {"/webhook", "/submit-travel-plan"} :
       Set(p, [proc[p] EXCEPT !.pc = "serving", !.fn = route])
  /\ UNCHANGED <<store, asked>>

\* the request is answered
Served(p) ==
  /\ proc[p].pc = "serving"
  /\ Set(p, [proc[p] EXCEPT !.pc = "listening", !.fn = ""])
  /\ UNCHANGED <<store, asked>>

\* the caller goes on
Again(p) ==
  /\ proc[p].pc = "applied"
  /\ Set(p, Idle)
  /\ UNCHANGED <<store, asked>>

\* ----------------------------------------------------------- specifications

Handle(p) ==
  \/ BeginEvent(p) \/ Dispatch(p) \/ StickerBranch(p) \/ GateReject(p)
  \/ InfoBranch(p) \/ WeatherBranch(p) \/ MapBranch(p) \/ ContactBranch(p)
  \/ AIRead(p) \/ AIWrite(p) \/ ResolvePlaces(p) \/ SearchPlaces(p)
  \/ HotelAnchor(p) \/ HotelNearby(p) \/ AssemblePlaces(p) \/ AssembleHotels(p)
  \/ FallbackPlain(p) \/ Image(p) \/ Send(p) \/ Catch(p) \/ EndEvent(p) \/ Ack(p)

\* one delivery, from its arrival to its acknowledgement; the store holds what
\* earlier runs left
Init ==
  /\ store = [u \in Users |-> IF u = "u1" THEN Preload(1) ELSE NoDoc]
  /\ proc = [p \in Procs |-> Idle]
  /\ asked = 0

Next == Receive(1) \/ Handle(1)

Spec == Init /\ [][Next]_vars

\* getAIResponse alone, called again and again for users with a stored history
InitHist ==
  /\ \E k \in 0..MaxInitExchanges : store = [u \in Users |-> IF u = "u1" THEN Preload(k) ELSE NoDoc]
  /\ proc = [p \in Procs |-> Idle]
  /\ asked = 0

NextHist == Ask(1) \/ AIRead(1) \/ AIWrite(1)

SpecHist == InitHist /\ [][NextHist]_vars

\* two callers of getAIResponse at once, as two deliveries being handled at the
\* same time are
NextRace == \E p \in Procs : Ask(p) \/ AIRead(p) \/ AIWrite(p)

SpecRace == Init /\ [][NextRace]_vars

\* the Place Resolver and the Hotel Finder applied to every answer of a search
NextPlaces == CallResolver(1) \/ CallHotels(1) \/ Again(1)

SpecPlaces == Init /\ [][NextPlaces]_vars

\* deliveries of several events, and deliveries that are rejected
NextBatch ==
  \/ ReceiveBatch(1) \/ RejectDelivery(1) \/ BeginEvent(1) \/ Dispatch(1)
  \/ StickerBranch(1) \/ GateReject(1) \/ ContactBranch(1) \/ Image(1)
  \/ Send(1) \/ Catch(1) \/ EndEvent(1) \/ Ack(1)

SpecBatch == Init /\ [][NextBatch]_vars

\* the startup of the process in every environment
InitStartup ==
  /\ store = [u \in Users |-> NoDoc]
  /\ \E env \in Environments :
       proc = [p \in Procs |-> IF p = 1 THEN [Idle EXCEPT !.pc = "checkEnv", !.env = env]
                                ELSE Idle]
  /\ asked = 0

NextStartup == CheckEnv(1) \/ Listen(1) \/ Serve(1) \/ Served(1)

SpecStartup == InitStartup /\ [][NextStartup]_vars

\* the menu built for every two languages
NextMenu == CallQuickReply(1) \/ Again(1)

SpecMenu == Init /\ [][NextMenu]_vars

\* plan submissions, one after the other
NextPlan ==
  \/ SubmitPlan(1) \/ AIRead(1) \/ AIWrite(1) \/ PlanPlaces(1) \/ HotelAnchor(1)
  \/ HotelNearby(1) \/ PlanPush(1) \/ PlanAnswered(1)

SpecPlan == Init /\ [][NextPlan]_vars

\* the place carousel applied to every list of names
NextCarousel == CallCarousel(1) \/ Again(1)

SpecCarousel == Init /\ [][NextCarousel]_vars

\* the extraction of place names applied to every completion
NextExtract == CallExtract(1) \/ Again(1)

SpecExtract == Init /\ [][NextExtract]_vars

\* translateText applied to every string input
NextTranslate == CallTranslate(1) \/ CallTranslateValue(1) \/ Again(1)

SpecTranslate == Init /\ [][NextTranslate]_vars

\* the two send functions applied to every batch
NextSend == CallSend(1) \/ CallPush(1) \/ Again(1)

SpecSend == Init /\ [][NextSend]_vars

\* --------------------------------------------------------------- properties

\* the kinds of the remote calls a handler made so far
Kinds(p) == {proc[p].calls[i].c : i \in 1..Len(proc[p].calls)}

\* the handler has written the history and not yet gone on
Wrote(p) == proc[p].wrote /\ proc[p].user \in Users

\* C1: after every history append performed by a completion, the stored sequence
\* of turns of that user has length at most 10
C1_StoredAtMostTen ==
  \A p \in Procs : Wrote(p) => Len(Stored(store[proc[p].user])) <= 10

\* the seven rules in the order of the claim; the eighth branch is the fallback
Rules == <<"sticker", "recPlace", "info", "recHotel", "weather", "map", "contact">>

RuleMatches(r, ev) ==
  CASE r = "sticker" -> MatchSticker(ev)
    [] r = "recPlace" -> MatchRecPlace(ev)
    [] r = "info" -> MatchInfo(ev)
    [] r = "recHotel" -> MatchRecHotel(ev)
    [] r = "weather" -> MatchWeather(ev)
    [] r = "map" -> MatchMap(ev)
    [] r = "contact" -> MatchContact(ev)

EarliestRule(ev) ==
  IF \E i \in 1..Len(Rules) : RuleMatches(Rules[i], ev)
  THEN Rules[CHOOSE i \in 1..Len(Rules) :
               /\ RuleMatches(Rules[i], ev)
               /\ \A j \in 1..(i - 1) : ~RuleMatches(Rules[j], ev)]
  ELSE "fallback"

\* the calls every dispatch makes before the rules are tested
PreludeCalls == {"loading", "getDoc", "translation"}

\* the remote calls that belong to each branch, besides translations
BranchCalls(b) ==
  CASE b = "recPlace" ->
         {"token", "getDoc", "complete", "setDoc", "textsearch", "websearch", "nearby"}
    [] b = "info" -> {"textsearch", "details", "websearch"}
    [] b = "recHotel" -> {"textsearch", "nearby", "websearch"}
    [] b \in {"weather", "map"} -> {"textsearch"}
    [] b = "fallback" ->
         {"token", "getDoc", "complete", "setDoc", "textsearch", "websearch"}
    [] OTHER -> {}

\* C2: classification is first-match-wins over the order sticker, recommend
\* places, info, recommend hotels or lodging, weather, map, contact authorities,
\* fallback: a dispatch that returns has run the earliest branch whose rule
\* matches the message and has made no call of another branch
C2_FirstMatchWins ==
  \A p \in Procs :
    proc[p].returned =>
      /\ proc[p].branch = EarliestRule(proc[p].ev)
      /\ Kinds(p) \subseteq PreludeCalls \cup BranchCalls(proc[p].branch)

\* a text with the info prefix and the lodging word was answered by the info branch
C2_Witness ==
  /\ proc[1].returned
  /\ proc[1].ev.text = <<"info", "lodging">>
  /\ proc[1].branch = "info"
  /\ "details" \in Kinds(1)

\* the dispatch ran one of the two gated branches for a destination that names
\* neither a northern province nor the region
GateRejected(p) ==
  /\ proc[p].returned
  /\ proc[p].branch \in {"recPlace", "recHotel"}
  /\ LET d == IF proc[p].branch = "recPlace" THEN RecPlaceDestination(proc[p].ev.text)
              ELSE HotelPlaceName(proc[p].ev.text)
     IN \A i \in 1..Len(d) : d[i] \notin {"province", "north"}

\* C3: in the recommend-places and the recommend-hotels branch, a destination
\* with none of the province names and not the region name is answered with
\* exactly one text, the region guidance, carrying the menu, and with no
\* completion, place-resolution, web-search or nearby-search call
C3_GateGuidanceOnly ==
  \A p \in Procs :
    GateRejected(p) =>
      /\ Len(proc[p].msgs) = 1
      /\ proc[p].msgs[1].type = "text"
      /\ proc[p].msgs[1].text.id = "regionGuidance"
      /\ Len(proc[p].msgs[1].qr) = 3
      /\ Kinds(p) \cap {"token", "complete", "setDoc", "textsearch", "details",
                        "websearch", "nearby"} = {}

\* recommend places for a place outside the region was answered
C3_Witness ==
  /\ GateRejected(1)
  /\ proc[1].branch = "recPlace"
  /\ proc[1].ev.text = <<"recPlace", "chat">>

\* C4, as stated: a dispatch rejected by the region gate calls no collaborator
\* but the translation service
C4_OnlyTranslationCalls ==
  \A p \in Procs : GateRejected(p) => Kinds(p) \subseteq {"translation"}

\* C4, amended: a dispatch rejected by the region gate makes exactly four calls:
\* the typing indicator, the read of the user's history document, the
\* translation call that detects the language and the one that translates the
\* guidance
C4_GateRejectCalls ==
  \A p \in Procs :
    GateRejected(p) =>
      [i \in 1..Len(proc[p].calls) |-> proc[p].calls[i].c]
        = <<"loading", "getDoc", "translation", "translation">>

\* a text with the lodging word and a place outside the region was rejected
C4_Witness ==
  /\ GateRejected(1)
  /\ proc[1].branch = "recHotel"
  /\ proc[1].ev.text = <<"chat", "lodging">>

\* C5, as stated: when the handling of an event ends, one of its sends succeeded
C5_SomeSendSucceeds ==
  \A p \in Procs :
    proc[p].pc = "evDone" => \E i \in 1..Len(proc[p].sends) : proc[p].sends[i].ok

\* C5, amended: when the handling of an event ends, at least one send was
\* attempted; the last attempt is the reply and it succeeded, or it is the one
\* generic error text, which is attempted once after a failure and never retried
C5_SendAttempted ==
  \A p \in Procs :
    proc[p].pc = "evDone" =>
      LET s == proc[p].sends
      IN /\ Len(s) \in {1, 2}
         /\ \/ s[Len(s)].what = "reply" /\ s[Len(s)].ok /\ Len(s) = 1
            \/ s[Len(s)].what = "error" /\ s[Len(s)].n = 1 /\ s[Len(s)].valid
         /\ Len(s) = 2 => s[1].what = "reply" /\ ~s[1].ok

\* the reply and the generic error text both failed to be sent
C5_Witness ==
  /\ proc[1].pc = "evDone"
  /\ Len(proc[1].sends) = 2
  /\ ~proc[1].sends[1].ok
  /\ ~proc[1].sends[2].ok

\* C6: no failure of a remote collaborator makes the dispatch raise
C6_DispatchNeverRaises == \A p \in Procs : ~proc[p].raised

\* C7: every successful completion appends exactly two turns, the user turn and
\* its model turn, at the end of the stored history and leaves the turns stored
\* before in place
C7_AppendsTwoTurns ==
  \A p \in Procs :
    Wrote(p) =>
      Stored(store[proc[p].user])
        = Stored(proc[p].before)
            \o <<UserTurn(proc[p].prompt), ModelTurn(proc[p].aiResponse)>>

\* C8: a request to the completion service holds at most the 10 most recent
\* stored turns of the user followed by exactly one new user turn
C8_RequestWindow ==
  \A p \in Procs :
    proc[p].request # <<>> =>
      LET req == proc[p].request
          h == Stored(proc[p].before)
          k == IF Len(h) < 10 THEN Len(h) ELSE 10
      IN /\ Len(req) = k + 1
         /\ SubSeq(req, 1, k) = SubSeq(h, Len(h) - k + 1, Len(h))
         /\ req[k + 1] = [role |-> "user", text |-> <<"tone">> \o proc[p].prompt]

\* a request was made for a user with more than 10 stored turns
C8_Witness ==
  /\ proc[1].request # <<>>
  /\ Len(Stored(proc[1].before)) > 10

\* the menu of the last message of a reply: three actions in the fixed order
HasMenu(msgs) ==
  /\ Len(msgs) > 0
  /\ LET qr == msgs[Len(msgs)].qr
     IN /\ Len(qr) = 3
        /\ [i \in 1..3 |-> qr[i].label.id]
             = <<"recommendPlaces", "recommendHotels", "createTravelPlan">>
        /\ [i \in 1..3 |-> qr[i].type] = <<"message", "message", "uri">>

HotelsFound(p) == proc[p].pc = "assemble" /\ proc[p].branch \in {"recPlace", "recHotel"}

\* C10: the anchor of the hotel finder is the first resolution that succeeds of
\* the destination, default city A and default city B, no resolution is tried
\* after a success, the hard-coded coordinates are used when all three fail, and
\* exactly one nearby search follows, with the chosen anchor
C10_AnchorChain ==
  \A p \in Procs :
    HotelsFound(p) =>
      LET cs == SubSeq(proc[p].calls, proc[p].chainAt + 1, Len(proc[p].calls))
          k == Len(cs) - 1
          names == <<proc[p].dest, <<"ChiangMaiThailand">>, <<"BangkokThailand">> >>
      IN /\ k \in 1..3
         /\ \A i \in 1..k : cs[i].c = "textsearch" /\ cs[i].arg = PlaceQuery(names[i])
         /\ \A i \in 1..(k - 1) : cs[i].res = "none"
         /\ cs[k].res = "none" => k = 3
         /\ cs[k + 1].c = "nearby"
         /\ cs[k + 1].arg = <<IF cs[k].res = "none" THEN "18.7883,98.9857" ELSE cs[k].res>>
         /\ Cardinality({i \in 1..Len(proc[p].calls) : proc[p].calls[i].c = "nearby"}) = 1

\* all three resolutions failed and the nearby search used the coordinates
C10_Witness ==
  /\ HotelsFound(1)
  /\ proc[1].branch = "recHotel"
  /\ proc[1].anchor = "18.7883,98.9857"
  /\ Len(proc[1].calls) = proc[1].chainAt + 4

\* the entries of a result set that carry geometry
WithGeometry(results) == {i \in 1..Len(results) : results[i].geo}

\* entry a beats entry b: higher rating, or the same rating and more ratings
Beats(a, b) == a.rating > b.rating \/ (a.rating = b.rating /\ a.count > b.count)

\* the record is the projection of the entry
ProjectionOf(rec, e) ==
  rec.found /\ rec.name = e.name /\ rec.rating = e.rating /\ rec.count = e.count

ResolverApplied(p) == proc[p].fn = "getLocationFromGooglePlaces"

HotelsApplied(p) == proc[p].fn = "getHotelsNearPlace"

\* C11: the Place Resolver never returns a record without latitude or longitude,
\* and it returns not-found when the search fails, the result set is empty or no
\* entry carries geometry
C11_ResolverHasCoordinates ==
  \A p \in Procs :
    ResolverApplied(p) =>
      /\ proc[p].output.found => proc[p].output.latitude /\ proc[p].output.longitude
      /\ (~proc[p].input.ok \/ WithGeometry(proc[p].input.results) = {})
           => ~proc[p].output.found

\* the best-rated entry has no geometry and a record is returned all the same
C11_Witness ==
  /\ ResolverApplied(1)
  /\ Len(proc[1].input.results) = 2
  /\ ~proc[1].input.results[1].geo /\ proc[1].input.results[1].rating = 1
  /\ proc[1].input.results[2].geo /\ proc[1].input.results[2].rating = 0
  /\ proc[1].output.found

\* C12: the record the Place Resolver returns is the projection of an entry that
\* no geometry-bearing entry beats under rating, then rating count, with a missing
\* rating or count taken as 0
C12_ResolverReturnsBest ==
  \A p \in Procs :
    (ResolverApplied(p) /\ proc[p].input.ok /\ WithGeometry(proc[p].input.results) # {}) =>
      \E i \in WithGeometry(proc[p].input.results) :
        /\ ProjectionOf(proc[p].output, proc[p].input.results[i])
        /\ \A j \in WithGeometry(proc[p].input.results) :
             ~Beats(proc[p].input.results[j], proc[p].input.results[i])

\* the third entry wins by its rating count, behind an equally rated first entry
C12_Witness ==
  /\ ResolverApplied(1)
  /\ Len(proc[1].input.results) = 3
  /\ \A i \in 1..3 : proc[1].input.results[i].geo /\ proc[1].input.results[i].rating = 1
  /\ proc[1].input.results[1].count = 0
  /\ proc[1].input.results[3].count = 1
  /\ proc[1].input.results[2].count = 0
  /\ proc[1].output.name = "e3"

\* C13: the Hotel Finder returns at most 3 records, each with both coordinates,
\* ordered by rating and then rating count, and they are the top 3 of the entries
\* with geometry; a failed nearby search gives the empty sequence
C13_HotelsTopThree ==
  \A p \in Procs :
    HotelsApplied(p) =>
      LET out == proc[p].output
          res == proc[p].input.results
          geo == WithGeometry(res)
      IN /\ Len(out) <= 3
         /\ ~proc[p].input.ok => out = <<>>
         /\ proc[p].input.ok =>
              Len(out) = IF Cardinality(geo) < 3 THEN Cardinality(geo) ELSE 3
         /\ \A i \in 1..Len(out) : out[i].latitude /\ out[i].longitude
         /\ \A i \in 1..Len(out) : \A j \in (i + 1)..Len(out) : ~Beats(out[j], out[i])
         /\ \E f \in [1..Len(out) -> geo] :
              /\ \A i \in 1..Len(out) : ProjectionOf(out[i], res[f[i]])
              /\ \A i \in 1..Len(out) : \A j \in 1..Len(out) : i # j => f[i] # f[j]
              /\ \A k \in geo :
                   (\A i \in 1..Len(out) : f[i] # k) =>
                     \A i \in 1..Len(out) : ~Beats(res[k], res[f[i]])

\* of four hotels with geometry the fourth is the best rated and comes first
C13_Witness ==
  /\ HotelsApplied(1)
  /\ Len(proc[1].input.results) = 4
  /\ \A i \in 1..4 : proc[1].input.results[i].geo
  /\ \A i \in 1..3 : proc[1].input.results[i].rating = 0
  /\ proc[1].input.results[4].rating = 1
  /\ Len(proc[1].output) = 3
  /\ proc[1].output[1].name = "e4"

\* C14: a sticker is answered with exactly one text, the greeting, carrying the
\* menu; the answer is the same whatever history the user has, no completion is
\* asked for and the stored history stays as it was
C14_StickerGreeting ==
  \A p \in Procs :
    (proc[p].returned /\ proc[p].kind = "sticker") =>
      /\ proc[p].msgs = <<[type |-> "text", text |-> [id |-> "greeting", lang |-> "th"],
                           n |-> 0, qr |-> createQuickReply("th")]>>
      /\ Len(proc[p].msgs[1].qr) = 3
      /\ Kinds(p) \cap {"token", "complete", "setDoc"} = {}
      /\ store[proc[p].user] = proc[p].hist0

\* a sticker of a user who has a stored history was answered
C14_Witness ==
  /\ proc[1].returned
  /\ proc[1].kind = "sticker"
  /\ Exists(proc[1].hist0)
  /\ Len(proc[1].msgs) = 1

\* the dispatch ran the recommend-places branch for a destination the gate lets pass
PlacesRecommended(p) ==
  proc[p].returned /\ proc[p].branch = "recPlace" /\ ~GateRejected(p)

\* the kinds of the calls of a handler, in the order they were made
KindSeq(p) == [i \in 1..Len(proc[p].calls) |-> proc[p].calls[i].c]

\* the reply of the recommend-places branch: the place carousel or its fallback
\* text, the summary if there is one, the hotel carousel or its fallback text, and
\* the follow-up text, which alone carries the menu
PlacesReplyOrdered(msgs) ==
  LET n == Len(msgs)
  IN /\ n \in {3, 4}
     /\ \/ msgs[1].type = "flex" /\ msgs[1].text.id = "placeCarousel"
        \/ msgs[1].type = "text" /\ msgs[1].text.id = "noPlaces"
     /\ n = 4 => msgs[2].type = "text" /\ msgs[2].text.id = "morePlaces"
     /\ \/ msgs[n - 1].type = "flex" /\ msgs[n - 1].text.id = "hotelCarousel"
        \/ msgs[n - 1].type = "text" /\ msgs[n - 1].text.id = "noHotels"
     /\ msgs[n].type = "text" /\ msgs[n].text.id = "followUpDated"
     /\ \A i \in 1..n : (Len(msgs[i].qr) = 3) = (i = n)
     /\ \A i \in 1..(n - 1) : msgs[i].qr = <<>>

\* C15, as stated: for a recommend-places message that passes the gate the
\* completion service is invoked before any place resolution, and the reply is
\* ordered place carousel, optional summary, hotel carousel, follow-up with menu
C15_CompletionBeforeResolution ==
  \A p \in Procs :
    PlacesRecommended(p) =>
      /\ \E i \in 1..Len(proc[p].calls) :
           /\ KindSeq(p)[i] = "complete"
           /\ \A j \in 1..Len(proc[p].calls) : KindSeq(p)[j] = "textsearch" => i < j
      /\ PlacesReplyOrdered(proc[p].msgs)

\* C15, amended: for a recommend-places message that passes the gate,
\* getAIResponse is entered with the 5-place prompt before any place resolution;
\* the completion request is made at most once and, when it is made, before every
\* place resolution, but it is not made when the access token or the history read
\* fails, and the places are resolved all the same; the reply is ordered place
\* carousel or fallback text, optional summary, hotel carousel or fallback text,
\* follow-up text, the only message with the menu
C15_CompletionEnteredFirst ==
  \A p \in Procs :
    /\ PlacesRecommended(p) =>
         /\ KindSeq(p)[4] = "token"
         /\ \A j \in 1..Len(proc[p].calls) : KindSeq(p)[j] = "textsearch" => 4 < j
         /\ \A i \in 1..Len(proc[p].calls) : \A j \in 1..Len(proc[p].calls) :
              (KindSeq(p)[i] = "complete" /\ KindSeq(p)[j] = "textsearch") => i < j
         /\ Cardinality({i \in 1..Len(proc[p].calls) : KindSeq(p)[i] = "complete"}) <= 1
         /\ PlacesReplyOrdered(proc[p].msgs)
    /\ (proc[p].pc = "resolve" /\ proc[p].branch = "recPlace" /\ proc[p].request # <<>>) =>
         proc[p].request[Len(proc[p].request)]
           = [role |-> "user",
              text |-> <<"tone", "top5in">> \o RecPlaceDestination(proc[p].ev.text)]

\* the completion was asked, two places were found and the reply has four messages
C15_Witness ==
  /\ PlacesRecommended(1)
  /\ "complete" \in Kinds(1)
  /\ Len(proc[1].msgs) = 4
  /\ proc[1].msgs[1].type = "flex"
  /\ proc[1].msgs[3].type = "text"

\* a message is structurally invalid: no type, a text message without a text,
\* or a quick reply without an items list
Malformed(msg) ==
  \/ msg.type = ""
  \/ msg.type = "text" /\ msg.text.id = ""
  \/ msg.qr = <<[type |-> "noItems", label |-> [id |-> "", lang |-> ""], payload |-> ""]>>

\* C16: a send of a batch with a structurally invalid message raises before any
\* transport call is made; a send of a batch of valid messages makes exactly one
\* transport call that carries all of them in order
C16_AllOrNothing ==
  \A p \in Procs :
    proc[p].fn \in {"sendToLine", "pushToLine"} =>
      IF \E i \in 1..Len(proc[p].input) : Malformed(proc[p].input[i])
      THEN proc[p].output.posts = <<>> /\ ~proc[p].output.sent.ok
      ELSE proc[p].output.posts = <<proc[p].input>>

\* C17: when the handling of an event raises, a failed reply send included, the
\* handler makes exactly one more reply attempt, a single generic error text with
\* the menu; a failure of that attempt is swallowed, so an event causes at most
\* two send attempts and its handling always ends
C17_OneErrorAttempt ==
  \A p \in Procs :
    LET s == proc[p].sends
        errors == {i \in 1..Len(s) : s[i].what = "error"}
    IN /\ proc[p].pc = "catch" =>
            /\ errors = {}
            /\ Len(s) <= 1
            /\ \A i \in 1..Len(s) : ~s[i].ok
       /\ proc[p].pc = "evDone" =>
            /\ Len(s) <= 2
            /\ Cardinality(errors) <= 1
            /\ \A i \in 1..Len(s) : (s[i].what = "reply" /\ ~s[i].ok) => (i + 1) \in errors
            /\ \A i \in errors :
                 /\ i = Len(s)
                 /\ s[i].n = 1
                 /\ proc[p].msgs
                      = <<[type |-> "text", text |-> [id |-> "processingError", lang |-> "th"],
                           n |-> 0, qr |-> createQuickReply("th")]>>

\* the reply could not be sent and the generic error text was delivered
C17_Witness ==
  /\ proc[1].pc = "evDone"
  /\ Len(proc[1].sends) = 2
  /\ proc[1].sends[1].what = "reply" /\ ~proc[1].sends[1].ok
  /\ proc[1].sends[2].what = "error" /\ proc[1].sends[2].ok

\* C18: the events of a delivery are handled one at a time in the order they
\* came in: calls and sends are made only for the one event that is open, every
\* event is reached whatever became of the earlier ones, the delivery is
\* acknowledged with 200 only after the last event was handled, and a delivery
\* without a list of events is answered 400 and handles no event
C18_OneEventAtATime ==
  \A p \in Procs :
    LET me == proc[p]
        handled == Len(me.outcomes)
    IN /\ me.pc \notin {"idle", "applied", "rejected", "aiRead", "aiWrite", "answered"} =>
            /\ me.nth <= Len(me.batch)
            /\ me.events = SubSeq(me.batch, me.nth + 1, Len(me.batch))
            /\ handled <= me.nth /\ me.nth <= handled + 1
            /\ me.pc = "loop" => me.nth = handled
            /\ me.pc \notin {"loop", "acked"} => me.nth = handled + 1
            /\ me.ev.type # "none" => me.ev = me.batch[me.nth]
            /\ (me.calls # <<>> \/ me.sends # <<>>) => me.nth = handled + 1
       /\ (me.status = "200") = (me.pc = "acked")
       /\ me.pc = "acked" => handled = Len(me.batch) /\ me.events = <<>>
       /\ (me.status = "400") = (me.pc = "rejected")
       /\ me.pc = "rejected" =>
            me.nth = 0 /\ handled = 0 /\ me.calls = <<>> /\ me.sends = <<>>

\* a delivery of two events was acknowledged; the first event got no reply at
\* all, the second one got its reply
C18_Witness ==
  /\ proc[1].pc = "acked"
  /\ Len(proc[1].batch) = 2
  /\ proc[1].outcomes = <<"none", "replied">>

\* p wrote last of two completions for the same user that both read the stored
\* history before either wrote; o wrote first
RacedAfter(p, o) ==
  /\ p # o
  /\ Wrote(p) /\ Wrote(o)
  /\ proc[p].user = proc[o].user
  /\ proc[p].racing = "last" /\ proc[o].racing = "first"

\* the turns a completion hands to the store
Handed(p) == Range(proc[p].request) \cup {ModelTurn(proc[p].aiResponse)}

\* C19 as stated: after such a race the stored history is exactly what the
\* later writer makes of its own stale read
C19_LastWriterWins ==
  \A p \in Procs, o \in Procs :
    RacedAfter(p, o) =>
      Stored(store[proc[p].user])
        = WriteHistory(proc[p].seen, proc[p].request, proc[p].aiResponse)

\* C19: a write never removes a stored turn: as long as a completion that wrote
\* has not gone on, the history stored before its write is a prefix of the stored
\* history and all turns it handed over are stored, whatever a concurrent
\* completion for the same user wrote since from a stale read
C19_NoLostUpdate ==
  \A p \in Procs :
    Wrote(p) =>
      LET h == Stored(store[proc[p].user])
          b == Stored(proc[p].before)
      IN /\ Len(b) <= Len(h)
         /\ SubSeq(h, 1, Len(b)) = b
         /\ Handed(p) \subseteq Range(h)

\* two completions with different prompts raced, and the stored history holds
\* the turns of the first writer, which the later writer never read
C19_Witness ==
  /\ RacedAfter(2, 1)
  /\ proc[1].prompt # proc[2].prompt
  /\ UserTurn(proc[1].prompt) \notin Range(Stored(proc[2].seen))
  /\ UserTurn(proc[1].prompt) \in Range(Stored(store[proc[2].user]))
  /\ ModelTurn(proc[1].aiResponse) \in Range(Stored(store[proc[2].user]))

\* translateText was applied to a string
TranslateApplied(p) == proc[p].pc = "applied" /\ proc[p].fn = "translateText"

\* no target is requested or the target is the detected language
NothingToTranslate(in) == in.targetLang = "" \/ in.targetLang = in.det

\* C20 as stated: the input comes back unchanged, tagged with the detected
\* language and without a translate call when there is nothing to translate;
\* otherwise the translated text comes back tagged with the target language
C20_TranslatedOtherwise ==
  \A p \in Procs :
    TranslateApplied(p) =>
      LET in == proc[p].input
          out == proc[p].output
      IN IF NothingToTranslate(in)
         THEN /\ out.result = [text |-> in.text, lang |-> in.det]
              /\ out.calls = <<"detect">>
         ELSE out.result = [text |-> Txt(in.text.id, in.targetLang),
                            lang |-> in.targetLang]

\* C20: with a string text, when detection succeeds and there is nothing to
\* translate the input comes back unchanged, tagged with the detected language,
\* after the detect call alone; when there is something to translate and the
\* translate call succeeds the translated text comes back tagged with the
\* target; when the detect call or the translate call fails the input comes
\* back unchanged tagged "th"
C20_TranslateOrFallBack ==
  \A p \in Procs :
    TranslateApplied(p) =>
      LET in == proc[p].input
          out == proc[p].output
      IN /\ in.det = "err" =>
              /\ out.result = [text |-> in.text, lang |-> "th"]
              /\ out.calls = <<"detect">>
         /\ in.det # "err" /\ NothingToTranslate(in) =>
              /\ out.result = [text |-> in.text, lang |-> in.det]
              /\ out.calls = <<"detect">>
         /\ in.det # "err" /\ ~NothingToTranslate(in) /\ in.tr = "ok" =>
              /\ out.result = [text |-> Txt(in.text.id, in.targetLang),
                               lang |-> in.targetLang]
              /\ out.calls = <<"detect", "translate">>
         /\ in.det # "err" /\ ~NothingToTranslate(in) /\ in.tr = "err" =>
              /\ out.result = [text |-> in.text, lang |-> "th"]
              /\ out.calls = <<"detect", "translate">>

\* an English sentence was to be translated to Japanese, the translate call
\* failed, and the English sentence came back tagged "th"
C20_Witness ==
  /\ TranslateApplied(1)
  /\ proc[1].input.text.lang = "en"
  /\ proc[1].input.det = "en"
  /\ proc[1].input.targetLang = "ja"
  /\ proc[1].input.tr = "err"
  /\ proc[1].output.result = [text |-> proc[1].input.text, lang |-> "th"]
  /\ proc[1].output.calls = <<"detect", "translate">>

\* translateText was applied to a value that is no string
ValueApplied(p) ==
  proc[p].pc = "applied" /\ proc[p].fn = "translateText of a non-string"

MissingVars(p) == Range(requiredEnvVars) \ proc[p].env

\* C22: with a required variable missing the process never listens and never
\* takes up a request: the check stops at the first missing variable and the
\* process exits with status 1; a process that listens or serves has them all
C22_NoServiceWithoutConfiguration ==
  \A p \in Procs :
    LET me == proc[p]
    IN /\ me.pc \in {"listening", "serving"} => MissingVars(p) = {}
       /\ me.pc \in {"checkEnv", "exited"} =>
            \A i \in 1..me.nth : requiredEnvVars[i] \in me.env
       /\ me.pc = "exited" =>
            /\ me.status = "1"
            /\ requiredEnvVars[me.nth + 1] \in MissingVars(p)
       /\ me.pc = "serving" => me.fn \in {"/webhook", "/submit-travel-plan"}

\* only the last required variable is missing, and the process has exited
C22_Witness ==
  /\ proc[1].pc = "exited"
  /\ MissingVars(1) = {"GOOGLE_CUSTOM_SEARCH_ENGINE_ID"}
  /\ proc[1].nth = Len(requiredEnvVars) - 1

\* a line that begins with a numeral, a dot and whitespace
Numbered(line) == line \in {"numA", "numB"}

\* C23: the extraction keeps exactly the lines that begin with a numeral, a dot
\* and whitespace, drops every other line, also a prose line with a numeral and
\* a dot further on, and yields the names of the kept lines in their order
C23_NumberedLinesOnly ==
  \A p \in Procs :
    proc[p].pc = "applied" /\ proc[p].fn = "places" =>
      LET kept == SelectSeq(proc[p].input, Numbered)
      IN proc[p].output = [i \in 1..Len(kept) |-> ExtractName(kept[i])]

\* the dispatch ran the fallback branch to its end
FellBack(p) == proc[p].returned /\ proc[p].branch = "fallback"

\* the reply to a list: the place carousel or its fallback text, the summary if
\* there is one, and the dated follow-up text, which alone carries the menu
ListReply(msgs) ==
  LET n == Len(msgs)
  IN /\ n \in {2, 3}
     /\ \/ msgs[1].type = "flex" /\ msgs[1].text.id = "placeCarousel"
        \/ msgs[1].type = "text" /\ msgs[1].text.id = "noPlaces"
     /\ n = 3 => msgs[2].type = "text" /\ msgs[2].text.id = "morePlaces"
     /\ msgs[n].type = "text" /\ msgs[n].text.id = "followUpDated"
     /\ \A i \in 1..n : (Len(msgs[i].qr) = 3) = (i = n)

\* the reply to the marker: the placeholder image and the follow-up text
ImageReply(msgs) ==
  /\ Len(msgs) = 2
  /\ msgs[1].type = "image" /\ msgs[1].text.id = "placeholder" /\ msgs[1].qr = <<>>
  /\ msgs[2].type = "text" /\ msgs[2].text.id = "followUp" /\ Len(msgs[2].qr) = 3

\* the reply to any other completion: the completion as translateText returned it
TextReply(msgs) ==
  /\ Len(msgs) = 1
  /\ msgs[1].type = "text" /\ msgs[1].text.id = "completion" /\ Len(msgs[1].qr) = 3

\* the number of completion requests a handler made
CompletionCalls(p) ==
  Cardinality({i \in 1..Len(proc[p].calls) : proc[p].calls[i].c = "complete"})

\* C24: the fallback branch takes a completion that has a list for a list,
\* whether or not it has the marker too, one without a list and with the marker
\* for the marker, and any other as plain text; it makes no second completion
\* request
C24_FallbackPriority ==
  \A p \in Procs :
    FellBack(p) =>
      /\ CompletionCalls(p) <= 1
      /\ proc[p].shape.list => ListReply(proc[p].msgs)
      /\ ~proc[p].shape.list /\ proc[p].shape.marker => ImageReply(proc[p].msgs)
      /\ ~proc[p].shape.list /\ ~proc[p].shape.marker => TextReply(proc[p].msgs)

\* a completion with a list and the marker was answered with the list reply
C24_Witness ==
  /\ FellBack(1)
  /\ proc[1].shape = [list |-> TRUE, marker |-> TRUE]
  /\ ListReply(proc[1].msgs)
  /\ CompletionCalls(1) = 1

\* the place carousel was applied
CarouselApplied(p) ==
  proc[p].pc = "applied" /\ proc[p].fn = "createRecommendationCarousel"

\* the names of a list that resolve, each where it stands first in the list
Resolving(places, kind) ==
  LET firsts == {i \in 1..Len(places) :
                   /\ kind[places[i]] = "place"
                   /\ \A j \in 1..(i - 1) : places[j] # places[i]}
      RECURSIVE Listed(_)
      Listed(i) ==
        IF i > Len(places) THEN <<>>
        ELSE (IF i \in firsts THEN <<places[i]>> ELSE <<>>) \o Listed(i + 1)
  IN Listed(1)

\* C25: whatever the order in which the lookups complete, the carousel has one
\* card for every distinct name that resolves and none for one that does not,
\* the cards stand in the order of the names, and the fixed sentence is
\* returned exactly when no name resolves
C25_OneCardPerResolvedName ==
  \A p \in Procs :
    CarouselApplied(p) =>
      LET names == Resolving(proc[p].input.places, proc[p].input.kind)
          out == proc[p].output
      IN /\ out.bubbles = [i \in 1..Len(names) |-> PlaceOf(names[i])]
         /\ (out.message.type = "text") = (names = <<>>)
         /\ names = <<>> => out.message.text.id = "noPlaces"
         /\ names # <<>> => out.message.type = "flex" /\ out.message.n = Len(names)

\* of the names B, C, B, A the lookup of C failed and the lookup of A completed
\* first; the cards are those of B and A, in that order
C25_Witness ==
  /\ CarouselApplied(1)
  /\ proc[1].input.places = <<"B", "C", "B", "A">>
  /\ proc[1].input.kind["C"] = "failed"
  /\ proc[1].input.order = <<3, 2, 1>>
  /\ proc[1].output.bubbles = <<"placeB", "placeA">>
  /\ proc[1].output.message.type = "flex"

\* a plan submission was answered
PlanDone(p) == proc[p].pc = "planDone"

\* the pushed plan: the plan text, the place carousel if there is one, the hotel
\* carousel if there is one, and the follow-up text, which alone has the menu
PlanReply(msgs) ==
  LET n == Len(msgs)
      mid == SubSeq(msgs, 2, n - 1)
  IN /\ n \in 2..4
     /\ msgs[1].type = "text" /\ msgs[1].text.id = "plan"
     /\ msgs[n].type = "text" /\ msgs[n].text.id = "followUp"
     /\ \A i \in 1..n : (Len(msgs[i].qr) = 3) = (i = n)
     /\ \A i \in 1..Len(mid) : mid[i].type = "flex"
     /\ [i \in 1..Len(mid) |-> mid[i].text.id]
          \in {<<>>, <<"placeCarousel">>, <<"hotelCarousel">>,
               <<"placeCarousel", "hotelCarousel">>}

\* the handler entered getAIResponse once: it asked once for the access token
EnteredCompletionOnce(p) ==
  Cardinality({i \in 1..Len(proc[p].calls) : proc[p].calls[i].c = "token"}) = 1

\* the rest of the three outcomes: 400 and no call when a field is missing, 500
\* exactly when the one push failed, and no reply through a reply token
PlanOutcomes(p) ==
  LET me == proc[p]
  IN /\ me.status \in {"400", "200", "500"}
     /\ (me.status = "400") = (me.input # {})
     /\ me.status = "400" => me.calls = <<>> /\ me.sends = <<>> /\ me.msgs = <<>>
     /\ me.status # "400" =>
          /\ Len(me.sends) = 1
          /\ me.sends[1].what = "push"
          /\ me.sends[1].n = Len(me.msgs)
          /\ (me.status = "200") = me.sends[1].ok
          /\ PlanReply(me.msgs)

MenuApplied(p) == proc[p].pc = "applied" /\ proc[p].fn = "createQuickReply"

\* C27: the menus of any two languages have the same three actions in the same
\* order, two messages and a link, with the same type and the same payload;
\* they differ in the labels at most
C27_MenuDiffersInLabelsOnly ==
  \A p \in Procs :
    MenuApplied(p) =>
      LET m1 == proc[p].output[1]
          m2 == proc[p].output[2]
      IN /\ Len(m1) = 3 /\ Len(m2) = 3
         /\ [i \in 1..3 |-> m1[i].type] = <<"message", "message", "uri">>
         /\ \A i \in 1..3 : m1[i].type = m2[i].type /\ m1[i].payload = m2[i].payload
         /\ [i \in 1..3 |-> m1[i].payload]
              = <<"recPlace", "recHotel", "https://tripster-plans.netlify.app/">>

\* the menus for Thai and for Japanese: other labels, the same payloads
C27_Witness ==
  /\ MenuApplied(1)
  /\ proc[1].input = <<"th", "ja">>
  /\ \A i \in 1..3 : proc[1].output[1][i].label # proc[1].output[2][i].label
  /\ \A i \in 1..3 : proc[1].output[1][i].payload = proc[1].output[2][i].payload

\* an event is being handled and its reply is not yet sent
Open(p) == proc[p].kind \in {"text", "sticker", "image"}

\* the number of calls of one kind a handler made
CallsOf(p, c) ==
  Cardinality({i \in 1..Len(proc[p].calls) : proc[p].calls[i].c = c})

\* the dispatch ran one of the two branches that ask for a completion
AsksCompletion(p) == PlacesRecommended(p) \/ FellBack(p)

\* the dispatch ran another branch, or the event is an image
AsksNothing(p) ==
  \/ proc[p].returned /\ ~AsksCompletion(p)
  \/ proc[p].kind = "image"

\* what holds for every event: at most one completion request and one history
\* write, for the user of the event only, and none in the branches that do
\* not ask
CompletionFrame(p) ==
  /\ CallsOf(p, "complete") <= 1
  /\ CallsOf(p, "setDoc") <= 1
  /\ CallsOf(p, "complete") = 0 => CallsOf(p, "setDoc") = 0
  /\ CallsOf(p, "setDoc") = 0 => store = proc[p].store0
  /\ \A u \in Users \ {proc[p].user} : store[u] = proc[p].store0[u]
  /\ AsksNothing(p) =>
       /\ Kinds(p) \cap {"token", "complete", "setDoc"} = {}
       /\ store = proc[p].store0

\* C28 as stated: the recommend-places branch that passes the gate and the
\* fallback branch make exactly one completion request
C28_ExactlyOneCompletion ==
  \A p \in Procs :
    Open(p) =>
      /\ CompletionFrame(p)
      /\ (proc[p].returned /\ AsksCompletion(p)) => CallsOf(p, "complete") = 1

\* C28: the handling of an event makes at most one completion request and at
\* most one history write, which changes the history of the event's user only;
\* the recommend-places branch that passes the gate and the fallback branch
\* enter getAIResponse exactly once, which makes no request when the access
\* token or the history read fails; the other branches and the image path make
\* none and leave every stored history as it was
C28_AtMostOneCompletion ==
  \A p \in Procs :
    Open(p) =>
      /\ CompletionFrame(p)
      /\ (proc[p].returned /\ AsksCompletion(p)) => CallsOf(p, "token") = 1

\* the fallback branch made its one completion request and its one history
\* write, and the history of the user has grown
C28_Witness ==
  /\ Open(1)
  /\ FellBack(1)
  /\ CallsOf(1, "complete") = 1
  /\ CallsOf(1, "setDoc") = 1
  /\ Len(Stored(store[proc[1].user])) > Len(Stored(proc[1].store0[proc[1].user]))

\* getAIResponse has just returned to the dispatcher
CompletionReturned(p) == Open(p) /\ proc[p].pc \in {"resolve", "plain"}

\* the last call a handler made
LastCall(p) == proc[p].calls[Len(proc[p].calls)].c

\* C29: a completion that does not succeed, for want of the access token or
\* because the history read, the completion request or the history write failed,
\* makes getAIResponse return one of its two fixed apologies without raising and
\* leaves every stored history as it was; the fallback branch then replies with
\* the apology as with any other plain completion text
C29_ApologyAndNoWrite ==
  \A p \in Procs :
    /\ (CompletionReturned(p) /\ ~proc[p].wrote) =>
         /\ proc[p].aiResponse \in {ApologyNoToken, ApologyError}
         /\ (proc[p].aiResponse = ApologyNoToken) = (LastCall(p) = "token")
         /\ LastCall(p) \in {"token", "getDoc", "complete", "setDoc"}
         /\ store = proc[p].store0
         /\ ~proc[p].raised
    /\ (CompletionReturned(p) /\ proc[p].wrote) =>
         proc[p].aiResponse \notin {ApologyNoToken, ApologyError}
    /\ (FellBack(p) /\ proc[p].aiResponse \in {ApologyNoToken, ApologyError}) =>
         /\ TextReply(proc[p].msgs)
         /\ store = proc[p].store0
         /\ ~proc[p].raised

\* the history write failed after the completion request, and the fallback
\* branch replied with the apology while the history stayed as it was
C29_Witness ==
  /\ FellBack(1)
  /\ proc[1].aiResponse = ApologyError
  /\ LastCall(1) = "translation"
  /\ CallsOf(1, "setDoc") = 1
  /\ store = proc[1].store0
  /\ TextReply(proc[1].msgs)

\* C30: the welcome text is never appended: what the dispatch returns for a
\* text is not empty and ends in a message with the menu, so the guard of the
\* welcome is false, also for a user without a history document, and no reply
\* was sent with the welcome added
C30_WelcomeNeverAppended ==
  \A p \in Procs :
    LET me == proc[p]
    IN /\ (me.pc = "send" /\ me.kind = "text") =>
            /\ me.returned
            /\ Len(me.msgs) > 0
            /\ Len(me.msgs[Len(me.msgs)].qr) = 3
            /\ ~NeedsWelcome(me)
       /\ \A i \in 1..Len(me.sends) : ~me.sends[i].welcome

\* the dispatch returned its messages for the first text of a user without a
\* history document, and the last of them has the menu
C30_Witness ==
  /\ proc[1].pc = "send"
  /\ proc[1].kind = "text"
  /\ proc[1].isFirst
  /\ ~Exists(proc[1].hist0)
  /\ Len(proc[1].msgs) >= 2
  /\ proc[1].msgs[Len(proc[1].msgs)].qr # NoQuickReply

\* the messages of a reply that are a summary of search links
SummaryMessages(msgs) ==
  SelectSeq(msgs, LAMBDA m : m.type = "text"
                               /\ m.text.id \in {"morePlaces", "moreAbout", "moreHotels"})

\* the reply of the dispatch has a summary
HasSummary(p) == Len(SummaryMessages(proc[p].msgs)) = 1

\* the dispatch returned from the branch that lists places: recommend places, or
\* the fallback branch for a completion with a list
ListedPlaces(p) ==
  /\ proc[p].returned
  /\ \/ proc[p].branch = "recPlace"
     \/ proc[p].branch = "fallback" /\ proc[p].shape.list

\* the links the web searches of a list branch left after filtering
LinksFound(p) == Len(Flat(proc[p].searchResults))

\* the number of links of a summary made of n results
AtMostThree(n) == IF n > 3 THEN 3 ELSE n

\* C31: in the recommend-places branch and for a list in the fallback branch the
\* reply has the summary exactly when a candidate place resolved, and in the
\* recommend-hotels branch exactly when a hotel was found, whatever the web
\* searches left after filtering; in the info branch it has the summary exactly
\* when a filtered search result exists; no reply has two summaries, and a
\* summary lists the first three links at most
C31_SummaryPresence ==
  \A p \in Procs :
    LET me == proc[p]
        summaries == SummaryMessages(me.msgs)
    IN /\ Len(summaries) <= 1
       /\ ListedPlaces(p) =>
            /\ HasSummary(p) <=> Len(me.validPlaces) > 0
            /\ HasSummary(p) => summaries[1].n = AtMostThree(LinksFound(p))
       /\ (me.returned /\ me.branch = "recHotel") =>
            /\ HasSummary(p) <=> Len(me.hotels) > 0
            /\ HasSummary(p) => summaries[1].n = AtMostThree(LinksFound(p))
       /\ (me.returned /\ me.branch = "info") =>
            /\ HasSummary(p) <=> Len(me.searchResults) > 0
            /\ HasSummary(p) => summaries[1].n = AtMostThree(Len(me.searchResults))
       /\ \A i \in 1..Len(summaries) : summaries[i].n <= 3

\* recommend places returned a summary without a link: a place resolved and no
\* web-search result survived the filter
C31_Witness ==
  /\ ListedPlaces(1)
  /\ proc[1].branch = "recPlace"
  /\ Len(proc[1].validPlaces) > 0
  /\ LinksFound(1) = 0
  /\ HasSummary(1)
  /\ SummaryMessages(proc[1].msgs)[1].n = 0

====
